---- MODULE Spec2Model ----
(***************************************************************************)
(* Verification model of the pharmacy calculator core: the quantity        *)
(* calculator (quantity-calculator.ts), the NDC selector (ndc-selector.ts),*)
(* the drug normalizer (normalizer.ts) and the orchestrator                *)
(* calculatePrescription (calculator.ts).                                  *)
(*                                                                         *)
(* Conventions.                                                            *)
(*  - A JavaScript string that the code inspects character by character    *)
(*    (units, the drug input) is a sequence of one-character strings.      *)
(*  - An optional value (T | undefined) is a sequence: <<>> for undefined, *)
(*    <<v>> for v.                                                         *)
(*  - Quantities are whole numbers of units.  A percentage that the code   *)
(*    rounds to two decimals (Math.round(x * 100) / 100) is held as the    *)
(*    integer number of hundredths of a percent, and so is a score.        *)
(***************************************************************************)
EXTENDS Integers, Sequences, FiniteSets, TLC

VARIABLES
    \* ---- calculatePrescription (one request) ----
    pc,              \* position of the request in the pipeline
    input,           \* CalculationInput
    cleaned,         \* drugValidation.cleaned
    normalizedDrug,  \* RxCUIResult | undefined
    parsedSIG,       \* ParsedSIG | undefined
    calculation,     \* QuantityCalculation | undefined
    ndcCodes,        \* string[]
    packages,        \* NDCPackage[]
    selectedNDCs,    \* NDCSelection[]
    alternativeNDCs, \* NDCSelection[] | undefined
    warnings,        \* string[]
    errors,          \* string[]
    calls,           \* the steps and collaborators invoked so far, in order
    result,          \* CalculationResult returned | undefined
    escaped,         \* TRUE iff an exception left calculatePrescription
    failed,          \* history: the steps that failed, each with the value thrown
    caughtBy,        \* history: the catch blocks that ran, in order
    \* ---- selectOptimalNDCs applied to drawn arguments ----
    selIn, selOut,
    selAgain,        \* result of a second call with the same arguments | undefined
    \* ---- quantity-calculator.ts functions applied to drawn arguments ----
    qtyIn, qtyOut,       \* calculateQuantity
    daysIn, daysOut,     \* validateDaysSupply
    taperIn, taperOut,   \* calculateTaperQuantity
    prnIn, prnOut,       \* estimatePRNQuantity
    \* ---- unitsMatch applied to drawn arguments ----
    unitIn, unitOut,
    \* ---- POST /api/calculate (one request) ----
    postPc,          \* position of the request in the handler
    postBody,        \* the parsed request body, and which calculator is installed
    postResult,      \* outcome of calculatePrescription | undefined
    postResponse,  \* the response returned | undefined
    \* ---- normalizer.ts functions applied to drawn arguments ----
    drugIn,
    drugOut,  \* validateDrugInput / normalizeDrug result | undefined
    \* ---- isQuantityReasonable applied to drawn arguments ----
    assessIn,
    assessOut,  \* isQuantityReasonable result | undefined
    \* ---- unitsMatch applied to three drawn strings ----
    relIn,
    relOut,  \* unitsMatch on each pair of three unit strings | undefined
    \* ---- SimpleCache driven by set, get and clear ----
    cacheStore,  \* SimpleCache.cache: Map<string, CacheEntry>
    cacheNow,  \* Date.now(), in minutes
    cacheOp,  \* the last operation called and what it returned
    cacheLastSet,  \* history: per key, the last set since the last clear
    \* ---- concurrent identity lookups of rxnorm.ts ----
    rxCache,  \* rxcuiCache
    rxNow,  \* Date.now(), in minutes
    rxLookups,  \* what the service knows, each caller's lookup, and the history of successes and of
                \* the values written through the exported cache object
    \* ---- getMultipleNDCPackages (one call) ----
    batchIn,  \* the codes passed and what each lookup will answer
    batchPc,  \* position in getMultipleNDCPackages
    batchIndex,  \* i, the loop index
    batchLookups,  \* the state of the lookup of each code
    batchPackages,  \* packages
    batchDelays,  \* history: the delays started and elapsed
    batchOut  \* the returned array | undefined

pipeVars == <<pc, input, cleaned, normalizedDrug, parsedSIG, calculation, ndcCodes,
              packages, selectedNDCs, alternativeNDCs, warnings, errors, calls,
              result, escaped, failed, caughtBy>>
selVars == <<selIn, selOut, selAgain>>
qtyVars == <<qtyIn, qtyOut, daysIn, daysOut, taperIn, taperOut, prnIn, prnOut>>
unitVars == <<unitIn, unitOut>>
postVars == <<postPc, postBody, postResult, postResponse>>
drugVars == <<drugIn, drugOut>>
assessVars == <<assessIn, assessOut>>
relVars == <<relIn, relOut>>
cacheVars == <<cacheStore, cacheNow, cacheOp, cacheLastSet>>
rxVars == <<rxCache, rxNow, rxLookups>>
batchVars == <<batchIn, batchPc, batchIndex, batchLookups, batchPackages, batchDelays, batchOut>>
vars == <<pipeVars, selVars, qtyVars, unitVars, postVars, drugVars, assessVars, relVars, cacheVars, rxVars, batchVars>>

----------------------------------------------------------------------------
(* Bounds of the model *)

\* longest candidate list handed to selectOptimalNDCs
MaxPackages == 3
\* longest code list returned by getRxCUINDCs
MaxCodes == 2

(* Program constants *)

\* Math.round(overfill * 100) / 100: two decimals
PctScale == 100
\* the penalty band of scorePackage
PenaltyBand == 10000
\* validateDaysSupply / calculateQuantity: upper limit of days supply
MaxDaysSupply == 365
\* validateDrugInput: length limits
MinDrugLen == 2
MaxDrugLen == 200
\* isQuantityReasonable thresholds
HighQuantity == 1000
HighDailyDose == 100
\* the options calculatePrescription passes to selectOptimalNDCs
DefaultMaxOverfill == 20
DefaultMaxAlternatives == 3
DefaultMaxDailyUse == 4

----------------------------------------------------------------------------
(* Generic helpers *)

None == <<>>
Some(v) == <<v>>
IsSome(o) == Len(o) > 0
Get(o) == o[1]

Abs(x) == IF x < 0 THEN -x ELSE x

\* a message: its text and the (at most two) numbers interpolated into it
Msg(text) == <<text, 0, 0>>
Msg1(text, n) == <<text, n, 0>>
Msg2(text, n, m) == <<text, n, m>>

\* Math.ceil(a / b) for a >= 0, b > 0
CeilDiv(a, b) == (a + b - 1) \div b

\* Math.round(n / d) for d > 0: the nearest integer, halves towards +infinity
RoundDiv(n, d) == (2 * n + d) \div (2 * d)

\* all sequences over S of length at most n
SeqsUpTo(S, n) == UNION {[1..k -> S] : k \in 0..n}

----------------------------------------------------------------------------
(* Strings as character sequences *)

Upper == <<"A","B","C","D","E","F","G","H","I","J","K","L","M",
           "N","O","P","Q","R","S","T","U","V","W","X","Y","Z">>
Lower == <<"a","b","c","d","e","f","g","h","i","j","k","l","m",
           "n","o","p","q","r","s","t","u","v","w","x","y","z">>
Digits == {"0","1","2","3","4","5","6","7","8","9"}
\* the characters String.prototype.trim removes and \s matches: WhiteSpace and
\* LineTerminator of ECMAScript; a character with no escape of its own is
\* written by its code point
Whitespace ==
    {" ", "\t", "\n", "\r", "\f", "U+000B", "U+00A0", "U+FEFF", "U+1680",
     "U+2000", "U+2001", "U+2002", "U+2003", "U+2004", "U+2005", "U+2006", "U+2007",
     "U+2008", "U+2009", "U+200A", "U+2028", "U+2029", "U+202F", "U+205F", "U+3000"}

\* the lower-case letter of each upper-case letter of ASCII
LowerOf == [c \in {Upper[i] : i \in 1..26} |-> Lower[CHOOSE i \in 1..26 : Upper[i] = c]]

HexDigits == <<"0","1","2","3","4","5","6","7","8","9","A","B","C","D","E","F">>

\* the UTF-16 code unit n >= 128, written by its code point
codeUnit(n) ==
    "U+" \o HexDigits[(n \div 4096) + 1] \o HexDigits[((n \div 256) % 16) + 1]
         \o HexDigits[((n \div 16) % 16) + 1] \o HexDigits[(n % 16) + 1]

\* the code units of the code point n >= 128: one unit, or a surrogate pair
codePoint(n) ==
    IF n < 65536 THEN <<codeUnit(n)>>
    ELSE <<codeUnit(55296 + ((n - 65536) \div 1024)), codeUnit(56320 + ((n - 65536) % 1024))>>

HighSurrogates == {codeUnit(n) : n \in 55296..56319}
LowSurrogates == {codeUnit(n) : n \in 56320..57343}

\* the code points in the runs <<first, last>>
pointsOf(runs) ==
    UNION {{codePoint(n) : n \in runs[i][1]..runs[i][2]} : i \in DOMAIN runs}

\* <<code point, the code point `offset` further on>> for the code points
\* first, first + step, ..., last of every run <<first, last, step, offset>>
pairsOf(runs) ==
    UNION {{<<codePoint(n), codePoint(n + runs[i][4])>> :
               n \in {k \in runs[i][1]..runs[i][2] : (k - runs[i][1]) % runs[i][3] = 0}} :
           i \in DOMAIN runs}

\* the simple lower-case mappings of Unicode beyond ASCII, as runs
\* <<first, last, step, offset>>: the code points first, first + step, ..., last
\* each map to the code point `offset` further on
LowerCaseRuns ==
 <<
    <<192, 214, 1, 32>>, <<216, 222, 1, 32>>, <<256, 302, 2, 1>>, <<306, 310, 2, 1>>,
    <<313, 327, 2, 1>>, <<330, 374, 2, 1>>, <<376, 376, 1, -121>>, <<377, 381, 2, 1>>,
    <<385, 385, 1, 210>>, <<386, 388, 2, 1>>, <<390, 390, 1, 206>>, <<391, 391, 1, 1>>,
    <<393, 394, 1, 205>>, <<395, 395, 1, 1>>, <<398, 398, 1, 79>>, <<399, 399, 1, 202>>,
    <<400, 400, 1, 203>>, <<401, 401, 1, 1>>, <<403, 403, 1, 205>>,
    <<404, 404, 1, 207>>, <<406, 406, 1, 211>>, <<407, 407, 1, 209>>,
    <<408, 408, 1, 1>>, <<412, 412, 1, 211>>, <<413, 413, 1, 213>>,
    <<415, 415, 1, 214>>, <<416, 420, 2, 1>>, <<422, 422, 1, 218>>, <<423, 423, 1, 1>>,
    <<425, 425, 1, 218>>, <<428, 428, 1, 1>>, <<430, 430, 1, 218>>, <<431, 431, 1, 1>>,
    <<433, 434, 1, 217>>, <<435, 437, 2, 1>>, <<439, 439, 1, 219>>, <<440, 440, 1, 1>>,
    <<444, 444, 1, 1>>, <<452, 452, 1, 2>>, <<453, 453, 1, 1>>, <<455, 455, 1, 2>>,
    <<456, 456, 1, 1>>, <<458, 458, 1, 2>>, <<459, 475, 2, 1>>, <<478, 494, 2, 1>>,
    <<497, 497, 1, 2>>, <<498, 500, 2, 1>>, <<502, 502, 1, -97>>, <<503, 503, 1, -56>>,
    <<504, 542, 2, 1>>, <<544, 544, 1, -130>>, <<546, 562, 2, 1>>,
    <<570, 570, 1, 10795>>, <<571, 571, 1, 1>>, <<573, 573, 1, -163>>,
    <<574, 574, 1, 10792>>, <<577, 577, 1, 1>>, <<579, 579, 1, -195>>,
    <<580, 580, 1, 69>>, <<581, 581, 1, 71>>, <<582, 590, 2, 1>>, <<880, 882, 2, 1>>,
    <<886, 886, 1, 1>>, <<895, 895, 1, 116>>, <<902, 902, 1, 38>>, <<904, 906, 1, 37>>,
    <<908, 908, 1, 64>>, <<910, 911, 1, 63>>, <<913, 929, 1, 32>>, <<931, 939, 1, 32>>,
    <<975, 975, 1, 8>>, <<984, 1006, 2, 1>>, <<1012, 1012, 1, -60>>,
    <<1015, 1015, 1, 1>>, <<1017, 1017, 1, -7>>, <<1018, 1018, 1, 1>>,
    <<1021, 1023, 1, -130>>, <<1024, 1039, 1, 80>>, <<1040, 1071, 1, 32>>,
    <<1120, 1152, 2, 1>>, <<1162, 1214, 2, 1>>, <<1216, 1216, 1, 15>>,
    <<1217, 1229, 2, 1>>, <<1232, 1326, 2, 1>>, <<1329, 1366, 1, 48>>,
    <<4256, 4293, 1, 7264>>, <<4295, 4295, 1, 7264>>, <<4301, 4301, 1, 7264>>,
    <<5024, 5103, 1, 38864>>, <<5104, 5109, 1, 8>>, <<7305, 7305, 1, 1>>,
    <<7312, 7354, 1, -3008>>, <<7357, 7359, 1, -3008>>, <<7680, 7828, 2, 1>>,
    <<7838, 7838, 1, -7615>>, <<7840, 7934, 2, 1>>, <<7944, 7951, 1, -8>>,
    <<7960, 7965, 1, -8>>, <<7976, 7983, 1, -8>>, <<7992, 7999, 1, -8>>,
    <<8008, 8013, 1, -8>>, <<8025, 8031, 2, -8>>, <<8040, 8047, 1, -8>>,
    <<8072, 8079, 1, -8>>, <<8088, 8095, 1, -8>>, <<8104, 8111, 1, -8>>,
    <<8120, 8121, 1, -8>>, <<8122, 8123, 1, -74>>, <<8124, 8124, 1, -9>>,
    <<8136, 8139, 1, -86>>, <<8140, 8140, 1, -9>>, <<8152, 8153, 1, -8>>,
    <<8154, 8155, 1, -100>>, <<8168, 8169, 1, -8>>, <<8170, 8171, 1, -112>>,
    <<8172, 8172, 1, -7>>, <<8184, 8185, 1, -128>>, <<8186, 8187, 1, -126>>,
    <<8188, 8188, 1, -9>>, <<8486, 8486, 1, -7517>>, <<8491, 8491, 1, -8262>>,
    <<8498, 8498, 1, 28>>, <<8544, 8559, 1, 16>>, <<8579, 8579, 1, 1>>,
    <<9398, 9423, 1, 26>>, <<11264, 11311, 1, 48>>, <<11360, 11360, 1, 1>>,
    <<11362, 11362, 1, -10743>>, <<11363, 11363, 1, -3814>>,
    <<11364, 11364, 1, -10727>>, <<11367, 11371, 2, 1>>, <<11373, 11373, 1, -10780>>,
    <<11374, 11374, 1, -10749>>, <<11375, 11375, 1, -10783>>,
    <<11376, 11376, 1, -10782>>, <<11378, 11378, 1, 1>>, <<11381, 11381, 1, 1>>,
    <<11390, 11391, 1, -10815>>, <<11392, 11490, 2, 1>>, <<11499, 11501, 2, 1>>,
    <<11506, 11506, 1, 1>>, <<42560, 42604, 2, 1>>, <<42624, 42650, 2, 1>>,
    <<42786, 42798, 2, 1>>, <<42802, 42862, 2, 1>>, <<42873, 42875, 2, 1>>,
    <<42877, 42877, 1, -35332>>, <<42878, 42886, 2, 1>>, <<42891, 42891, 1, 1>>,
    <<42893, 42893, 1, -42280>>, <<42896, 42898, 2, 1>>, <<42902, 42920, 2, 1>>,
    <<42922, 42922, 1, -42308>>, <<42923, 42923, 1, -42319>>,
    <<42924, 42924, 1, -42315>>, <<42925, 42925, 1, -42305>>,
    <<42926, 42926, 1, -42308>>, <<42928, 42928, 1, -42258>>,
    <<42929, 42929, 1, -42282>>, <<42930, 42930, 1, -42261>>, <<42931, 42931, 1, 928>>,
    <<42932, 42946, 2, 1>>, <<42948, 42948, 1, -48>>, <<42949, 42949, 1, -42307>>,
    <<42950, 42950, 1, -35384>>, <<42951, 42953, 2, 1>>, <<42955, 42955, 1, -42343>>,
    <<42956, 42970, 2, 1>>, <<42972, 42972, 1, -42561>>, <<42997, 42997, 1, 1>>,
    <<65313, 65338, 1, 32>>, <<66560, 66599, 1, 40>>, <<66736, 66771, 1, 40>>,
    <<66928, 66938, 1, 39>>, <<66940, 66954, 1, 39>>, <<66956, 66962, 1, 39>>,
    <<66964, 66965, 1, 39>>, <<68736, 68786, 1, 64>>, <<68944, 68965, 1, 32>>,
    <<71840, 71871, 1, 32>>, <<93760, 93791, 1, 32>>, <<93856, 93880, 1, 27>>,
    <<125184, 125217, 1, 34>>
 >>

\* <<upper-case code point, its lower case>> for every run
LowerCasePairs == pairsOf(LowerCaseRuns)

\* the lower case of each upper-case code point beyond ASCII
lowerCaseOfPairs(pairs) ==
    [p \in {q[1] : q \in pairs} |-> (CHOOSE q \in pairs : q[1] = p)[2]]

LowerCaseOf == lowerCaseOfPairs(LowerCasePairs)

\* the cased code points beyond ASCII that are not case-ignorable, as runs
\* <<first, last>>
CasedRuns ==
 <<
    <<170, 170>>, <<181, 181>>, <<186, 186>>, <<192, 214>>, <<216, 246>>, <<248, 442>>,
    <<444, 447>>, <<452, 659>>, <<662, 687>>, <<880, 883>>, <<886, 887>>, <<891, 893>>,
    <<895, 895>>, <<902, 902>>, <<904, 906>>, <<908, 908>>, <<910, 929>>, <<931, 1013>>,
    <<1015, 1153>>, <<1162, 1327>>, <<1329, 1366>>, <<1376, 1416>>, <<4256, 4293>>,
    <<4295, 4295>>, <<4301, 4301>>, <<4304, 4346>>, <<4349, 4351>>, <<5024, 5109>>,
    <<5112, 5117>>, <<7296, 7306>>, <<7312, 7354>>, <<7357, 7359>>, <<7424, 7467>>,
    <<7531, 7543>>, <<7545, 7578>>, <<7680, 7957>>, <<7960, 7965>>, <<7968, 8005>>,
    <<8008, 8013>>, <<8016, 8023>>, <<8025, 8025>>, <<8027, 8027>>, <<8029, 8029>>,
    <<8031, 8061>>, <<8064, 8116>>, <<8118, 8124>>, <<8126, 8126>>, <<8130, 8132>>,
    <<8134, 8140>>, <<8144, 8147>>, <<8150, 8155>>, <<8160, 8172>>, <<8178, 8180>>,
    <<8182, 8188>>, <<8450, 8450>>, <<8455, 8455>>, <<8458, 8467>>, <<8469, 8469>>,
    <<8473, 8477>>, <<8484, 8484>>, <<8486, 8486>>, <<8488, 8488>>, <<8490, 8493>>,
    <<8495, 8500>>, <<8505, 8505>>, <<8508, 8511>>, <<8517, 8521>>, <<8526, 8526>>,
    <<8544, 8575>>, <<8579, 8580>>, <<9398, 9449>>, <<11264, 11387>>, <<11390, 11492>>,
    <<11499, 11502>>, <<11506, 11507>>, <<11520, 11557>>, <<11559, 11559>>,
    <<11565, 11565>>, <<42560, 42605>>, <<42624, 42651>>, <<42786, 42863>>,
    <<42865, 42887>>, <<42891, 42894>>, <<42896, 42972>>, <<42997, 42998>>,
    <<43002, 43002>>, <<43824, 43866>>, <<43872, 43880>>, <<43888, 43967>>,
    <<64256, 64262>>, <<64275, 64279>>, <<65313, 65338>>, <<65345, 65370>>,
    <<66560, 66639>>, <<66736, 66771>>, <<66776, 66811>>, <<66928, 66938>>,
    <<66940, 66954>>, <<66956, 66962>>, <<66964, 66965>>, <<66967, 66977>>,
    <<66979, 66993>>, <<66995, 67001>>, <<67003, 67004>>, <<68736, 68786>>,
    <<68800, 68850>>, <<68944, 68965>>, <<68976, 68997>>, <<71840, 71903>>,
    <<93760, 93823>>, <<93856, 93880>>, <<93883, 93907>>, <<119808, 119892>>,
    <<119894, 119964>>, <<119966, 119967>>, <<119970, 119970>>, <<119973, 119974>>,
    <<119977, 119980>>, <<119982, 119993>>, <<119995, 119995>>, <<119997, 120003>>,
    <<120005, 120069>>, <<120071, 120074>>, <<120077, 120084>>, <<120086, 120092>>,
    <<120094, 120121>>, <<120123, 120126>>, <<120128, 120132>>, <<120134, 120134>>,
    <<120138, 120144>>, <<120146, 120485>>, <<120488, 120512>>, <<120514, 120538>>,
    <<120540, 120570>>, <<120572, 120596>>, <<120598, 120628>>, <<120630, 120654>>,
    <<120656, 120686>>, <<120688, 120712>>, <<120714, 120744>>, <<120746, 120770>>,
    <<120772, 120779>>, <<122624, 122633>>, <<122635, 122654>>, <<122661, 122666>>,
    <<125184, 125251>>, <<127280, 127305>>, <<127312, 127337>>, <<127344, 127369>>
 >>

\* the case-ignorable code points beyond ASCII, as runs <<first, last>>
CaseIgnorableRuns ==
 <<
    <<168, 168>>, <<173, 173>>, <<175, 175>>, <<180, 180>>, <<183, 184>>, <<688, 879>>,
    <<884, 885>>, <<890, 890>>, <<900, 901>>, <<903, 903>>, <<1155, 1161>>,
    <<1369, 1369>>, <<1375, 1375>>, <<1425, 1469>>, <<1471, 1471>>, <<1473, 1474>>,
    <<1476, 1477>>, <<1479, 1479>>, <<1524, 1524>>, <<1536, 1541>>, <<1552, 1562>>,
    <<1564, 1564>>, <<1600, 1600>>, <<1611, 1631>>, <<1648, 1648>>, <<1750, 1757>>,
    <<1759, 1768>>, <<1770, 1773>>, <<1807, 1807>>, <<1809, 1809>>, <<1840, 1866>>,
    <<1958, 1968>>, <<2027, 2037>>, <<2042, 2042>>, <<2045, 2045>>, <<2070, 2093>>,
    <<2137, 2139>>, <<2184, 2184>>, <<2192, 2193>>, <<2199, 2207>>, <<2249, 2306>>,
    <<2362, 2362>>, <<2364, 2364>>, <<2369, 2376>>, <<2381, 2381>>, <<2385, 2391>>,
    <<2402, 2403>>, <<2417, 2417>>, <<2433, 2433>>, <<2492, 2492>>, <<2497, 2500>>,
    <<2509, 2509>>, <<2530, 2531>>, <<2558, 2558>>, <<2561, 2562>>, <<2620, 2620>>,
    <<2625, 2626>>, <<2631, 2632>>, <<2635, 2637>>, <<2641, 2641>>, <<2672, 2673>>,
    <<2677, 2677>>, <<2689, 2690>>, <<2748, 2748>>, <<2753, 2757>>, <<2759, 2760>>,
    <<2765, 2765>>, <<2786, 2787>>, <<2810, 2815>>, <<2817, 2817>>, <<2876, 2876>>,
    <<2879, 2879>>, <<2881, 2884>>, <<2893, 2893>>, <<2901, 2902>>, <<2914, 2915>>,
    <<2946, 2946>>, <<3008, 3008>>, <<3021, 3021>>, <<3072, 3072>>, <<3076, 3076>>,
    <<3132, 3132>>, <<3134, 3136>>, <<3142, 3144>>, <<3146, 3149>>, <<3157, 3158>>,
    <<3170, 3171>>, <<3201, 3201>>, <<3260, 3260>>, <<3263, 3263>>, <<3270, 3270>>,
    <<3276, 3277>>, <<3298, 3299>>, <<3328, 3329>>, <<3387, 3388>>, <<3393, 3396>>,
    <<3405, 3405>>, <<3426, 3427>>, <<3457, 3457>>, <<3530, 3530>>, <<3538, 3540>>,
    <<3542, 3542>>, <<3633, 3633>>, <<3636, 3642>>, <<3654, 3662>>, <<3761, 3761>>,
    <<3764, 3772>>, <<3782, 3782>>, <<3784, 3790>>, <<3864, 3865>>, <<3893, 3893>>,
    <<3895, 3895>>, <<3897, 3897>>, <<3953, 3966>>, <<3968, 3972>>, <<3974, 3975>>,
    <<3981, 3991>>, <<3993, 4028>>, <<4038, 4038>>, <<4141, 4144>>, <<4146, 4151>>,
    <<4153, 4154>>, <<4157, 4158>>, <<4184, 4185>>, <<4190, 4192>>, <<4209, 4212>>,
    <<4226, 4226>>, <<4229, 4230>>, <<4237, 4237>>, <<4253, 4253>>, <<4348, 4348>>,
    <<4957, 4959>>, <<5906, 5908>>, <<5938, 5939>>, <<5970, 5971>>, <<6002, 6003>>,
    <<6068, 6069>>, <<6071, 6077>>, <<6086, 6086>>, <<6089, 6099>>, <<6103, 6103>>,
    <<6109, 6109>>, <<6155, 6159>>, <<6211, 6211>>, <<6277, 6278>>, <<6313, 6313>>,
    <<6432, 6434>>, <<6439, 6440>>, <<6450, 6450>>, <<6457, 6459>>, <<6679, 6680>>,
    <<6683, 6683>>, <<6742, 6742>>, <<6744, 6750>>, <<6752, 6752>>, <<6754, 6754>>,
    <<6757, 6764>>, <<6771, 6780>>, <<6783, 6783>>, <<6823, 6823>>, <<6832, 6877>>,
    <<6880, 6891>>, <<6912, 6915>>, <<6964, 6964>>, <<6966, 6970>>, <<6972, 6972>>,
    <<6978, 6978>>, <<7019, 7027>>, <<7040, 7041>>, <<7074, 7077>>, <<7080, 7081>>,
    <<7083, 7085>>, <<7142, 7142>>, <<7144, 7145>>, <<7149, 7149>>, <<7151, 7153>>,
    <<7212, 7219>>, <<7222, 7223>>, <<7288, 7293>>, <<7376, 7378>>, <<7380, 7392>>,
    <<7394, 7400>>, <<7405, 7405>>, <<7412, 7412>>, <<7416, 7417>>, <<7468, 7530>>,
    <<7544, 7544>>, <<7579, 7679>>, <<8125, 8125>>, <<8127, 8129>>, <<8141, 8143>>,
    <<8157, 8159>>, <<8173, 8175>>, <<8189, 8190>>, <<8203, 8207>>, <<8216, 8217>>,
    <<8228, 8228>>, <<8231, 8231>>, <<8234, 8238>>, <<8288, 8292>>, <<8294, 8303>>,
    <<8305, 8305>>, <<8319, 8319>>, <<8336, 8348>>, <<8400, 8432>>, <<11388, 11389>>,
    <<11503, 11505>>, <<11631, 11631>>, <<11647, 11647>>, <<11744, 11775>>,
    <<11823, 11823>>, <<12293, 12293>>, <<12330, 12333>>, <<12337, 12341>>,
    <<12347, 12347>>, <<12441, 12446>>, <<12540, 12542>>, <<40981, 40981>>,
    <<42232, 42237>>, <<42508, 42508>>, <<42607, 42610>>, <<42612, 42621>>,
    <<42623, 42623>>, <<42652, 42655>>, <<42736, 42737>>, <<42752, 42785>>,
    <<42864, 42864>>, <<42888, 42890>>, <<42993, 42996>>, <<43000, 43001>>,
    <<43010, 43010>>, <<43014, 43014>>, <<43019, 43019>>, <<43045, 43046>>,
    <<43052, 43052>>, <<43204, 43205>>, <<43232, 43249>>, <<43263, 43263>>,
    <<43302, 43309>>, <<43335, 43345>>, <<43392, 43394>>, <<43443, 43443>>,
    <<43446, 43449>>, <<43452, 43453>>, <<43471, 43471>>, <<43493, 43494>>,
    <<43561, 43566>>, <<43569, 43570>>, <<43573, 43574>>, <<43587, 43587>>,
    <<43596, 43596>>, <<43632, 43632>>, <<43644, 43644>>, <<43696, 43696>>,
    <<43698, 43700>>, <<43703, 43704>>, <<43710, 43711>>, <<43713, 43713>>,
    <<43741, 43741>>, <<43756, 43757>>, <<43763, 43764>>, <<43766, 43766>>,
    <<43867, 43871>>, <<43881, 43883>>, <<44005, 44005>>, <<44008, 44008>>,
    <<44013, 44013>>, <<64286, 64286>>, <<64434, 64450>>, <<65024, 65039>>,
    <<65043, 65043>>, <<65056, 65071>>, <<65106, 65106>>, <<65109, 65109>>,
    <<65279, 65279>>, <<65287, 65287>>, <<65294, 65294>>, <<65306, 65306>>,
    <<65342, 65342>>, <<65344, 65344>>, <<65392, 65392>>, <<65438, 65439>>,
    <<65507, 65507>>, <<65529, 65531>>, <<66045, 66045>>, <<66272, 66272>>,
    <<66422, 66426>>, <<67456, 67461>>, <<67463, 67504>>, <<67506, 67514>>,
    <<68097, 68099>>, <<68101, 68102>>, <<68108, 68111>>, <<68152, 68154>>,
    <<68159, 68159>>, <<68325, 68326>>, <<68900, 68903>>, <<68942, 68942>>,
    <<68969, 68973>>, <<68975, 68975>>, <<69291, 69292>>, <<69317, 69317>>,
    <<69370, 69375>>, <<69446, 69456>>, <<69506, 69509>>, <<69633, 69633>>,
    <<69688, 69702>>, <<69744, 69744>>, <<69747, 69748>>, <<69759, 69761>>,
    <<69811, 69814>>, <<69817, 69818>>, <<69821, 69821>>, <<69826, 69826>>,
    <<69837, 69837>>, <<69888, 69890>>, <<69927, 69931>>, <<69933, 69940>>,
    <<70003, 70003>>, <<70016, 70017>>, <<70070, 70078>>, <<70089, 70092>>,
    <<70095, 70095>>, <<70191, 70193>>, <<70196, 70196>>, <<70198, 70199>>,
    <<70206, 70206>>, <<70209, 70209>>, <<70367, 70367>>, <<70371, 70378>>,
    <<70400, 70401>>, <<70459, 70460>>, <<70464, 70464>>, <<70502, 70508>>,
    <<70512, 70516>>, <<70587, 70592>>, <<70606, 70606>>, <<70608, 70608>>,
    <<70610, 70610>>, <<70625, 70626>>, <<70712, 70719>>, <<70722, 70724>>,
    <<70726, 70726>>, <<70750, 70750>>, <<70835, 70840>>, <<70842, 70842>>,
    <<70847, 70848>>, <<70850, 70851>>, <<71090, 71093>>, <<71100, 71101>>,
    <<71103, 71104>>, <<71132, 71133>>, <<71219, 71226>>, <<71229, 71229>>,
    <<71231, 71232>>, <<71339, 71339>>, <<71341, 71341>>, <<71344, 71349>>,
    <<71351, 71351>>, <<71453, 71453>>, <<71455, 71455>>, <<71458, 71461>>,
    <<71463, 71467>>, <<71727, 71735>>, <<71737, 71738>>, <<71995, 71996>>,
    <<71998, 71998>>, <<72003, 72003>>, <<72148, 72151>>, <<72154, 72155>>,
    <<72160, 72160>>, <<72193, 72202>>, <<72243, 72248>>, <<72251, 72254>>,
    <<72263, 72263>>, <<72273, 72278>>, <<72281, 72283>>, <<72330, 72342>>,
    <<72344, 72345>>, <<72544, 72544>>, <<72546, 72548>>, <<72550, 72550>>,
    <<72752, 72758>>, <<72760, 72765>>, <<72767, 72767>>, <<72850, 72871>>,
    <<72874, 72880>>, <<72882, 72883>>, <<72885, 72886>>, <<73009, 73014>>,
    <<73018, 73018>>, <<73020, 73021>>, <<73023, 73029>>, <<73031, 73031>>,
    <<73104, 73105>>, <<73109, 73109>>, <<73111, 73111>>, <<73177, 73177>>,
    <<73459, 73460>>, <<73472, 73473>>, <<73526, 73530>>, <<73536, 73536>>,
    <<73538, 73538>>, <<73562, 73562>>, <<78896, 78912>>, <<78919, 78933>>,
    <<90398, 90409>>, <<90413, 90415>>, <<92912, 92916>>, <<92976, 92982>>,
    <<92992, 92995>>, <<93504, 93506>>, <<93547, 93548>>, <<94031, 94031>>,
    <<94095, 94111>>, <<94176, 94177>>, <<94179, 94180>>, <<94194, 94195>>,
    <<110576, 110579>>, <<110581, 110587>>, <<110589, 110590>>, <<113821, 113822>>,
    <<113824, 113827>>, <<118528, 118573>>, <<118576, 118598>>, <<119143, 119145>>,
    <<119155, 119170>>, <<119173, 119179>>, <<119210, 119213>>, <<119362, 119364>>,
    <<121344, 121398>>, <<121403, 121452>>, <<121461, 121461>>, <<121476, 121476>>,
    <<121499, 121503>>, <<121505, 121519>>, <<122880, 122886>>, <<122888, 122904>>,
    <<122907, 122913>>, <<122915, 122916>>, <<122918, 122922>>, <<122928, 122989>>,
    <<123023, 123023>>, <<123184, 123197>>, <<123566, 123566>>, <<123628, 123631>>,
    <<124139, 124143>>, <<124398, 124399>>, <<124643, 124643>>, <<124646, 124646>>,
    <<124654, 124655>>, <<124661, 124661>>, <<124671, 124671>>, <<125136, 125142>>,
    <<125252, 125259>>, <<127995, 127999>>, <<917505, 917505>>, <<917536, 917631>>,
    <<917760, 917999>>
 >>

CasedPoints ==
    {<<Upper[i]>> : i \in 1..26} \cup {<<Lower[i]>> : i \in 1..26} \cup pointsOf(CasedRuns)

CaseIgnorablePoints ==
    {<<"'">>, <<".">>, <<":">>, <<"^">>, <<"U+0060">>} \cup pointsOf(CaseIgnorableRuns)

\* the characters of ASCII
Ascii ==
    {"\t", "\n", "\f", "\r", " ", "!", "\"", "#", "$", "%", "&", "'", "(", ")", "*", "+",
     ",", "-", ".", "/", "0", "1", "2", "3", "4", "5", "6", "7", "8", "9", ":", ";", "<",
     "=", ">", "?", "@", "A", "B", "C", "D", "E", "F", "G", "H", "I", "J", "K", "L", "M",
     "N", "O", "P", "Q", "R", "S", "T", "U", "V", "W", "X", "Y", "Z", "[", "\\", "]", "^",
     "_", "U+0060", "a", "b", "c", "d", "e", "f", "g", "h", "i", "j", "k", "l", "m", "n",
     "o", "p", "q", "r", "s", "t", "u", "v", "w", "x", "y", "z", "{", "|", "}", "~",
     "U+0000", "U+0001", "U+0002", "U+0003", "U+0004", "U+0005", "U+0006", "U+0007",
     "U+0008", "U+000B", "U+000E", "U+000F", "U+0010", "U+0011", "U+0012", "U+0013",
     "U+0014", "U+0015", "U+0016", "U+0017", "U+0018", "U+0019", "U+001A", "U+001B",
     "U+001C", "U+001D", "U+001E", "U+001F", "U+007F"}

\* toLowerCase of one code point away from any context: the simple mapping,
\* but U+0130 becomes i followed by U+0307
lowerPoint(p) ==
    IF p = <<"U+0130">> THEN <<"i", "U+0307">>
    ELSE IF p = <<"U+212A">> THEN <<"k">>
    ELSE IF p \in DOMAIN LowerCaseOf THEN LowerCaseOf[p]
    ELSE p

\* String.prototype.toLowerCase, one code unit
LowerChar(c) ==
    IF c \in DOMAIN LowerOf THEN <<LowerOf[c]>>
    ELSE IF c \in Ascii THEN <<c>>
    ELSE lowerPoint(<<c>>)

\* s[i] and s[i + 1] are the two halves of one code point
startsPair(s, i) == i < Len(s) /\ s[i] \in HighSurrogates /\ s[i + 1] \in LowSurrogates
endsPair(s, i) == i > 1 /\ s[i - 1] \in HighSurrogates /\ s[i] \in LowSurrogates

pointAt(s, i) == IF startsPair(s, i) THEN <<s[i], s[i + 1]>> ELSE <<s[i]>>

\* the part a code point takes in the context of a capital sigma
caseClass(p) ==
    IF p \in CaseIgnorablePoints THEN "ignorable"
    ELSE IF p \in CasedPoints THEN "cased"
    ELSE "other"

\* the part of each position of s: the second half of a pair is passed over
caseClasses(s) ==
    [i \in 1..Len(s) |-> IF endsPair(s, i) THEN "ignorable" ELSE caseClass(pointAt(s, i))]

\* Final_Sigma: a cased letter before position i and none after it,
\* case-ignorable characters between them set aside
finalSigma(classes, i) ==
    /\ \E j \in 1..(i - 1) :
          /\ classes[j] = "cased"
          /\ \A k \in (j + 1)..(i - 1) : classes[k] = "ignorable"
    /\ ~\E j \in (i + 1)..Len(classes) :
          /\ classes[j] = "cased"
          /\ \A k \in (i + 1)..(j - 1) : classes[k] = "ignorable"

\* what position i of s contributes to s.toLowerCase()
lowerAt(s, classes, i) ==
    IF endsPair(s, i) THEN <<>>
    ELSE IF s[i] = "U+03A3"
    THEN (IF finalSigma(classes, i) THEN <<"U+03C2">> ELSE <<"U+03C3">>)
    ELSE IF startsPair(s, i) THEN lowerPoint(<<s[i], s[i + 1]>>)
    ELSE LowerChar(s[i])

\* the concatenation of the strings ps[from..to]
RECURSIVE joinAll(_, _, _)
joinAll(ps, from, to) ==
    IF from > to THEN <<>>
    ELSE IF from = to THEN ps[from]
    ELSE joinAll(ps, from, (from + to) \div 2) \o joinAll(ps, (from + to) \div 2 + 1, to)

\* toLowerCase of a string with a character beyond ASCII
lowerEach(s, classes) == joinAll([i \in 1..Len(s) |-> lowerAt(s, classes, i)], 1, Len(s))

\* String.prototype.toLowerCase
toLowerCase(s) ==
    IF \A i \in 1..Len(s) : s[i] \in Ascii
    THEN [i \in 1..Len(s) |-> IF s[i] \in DOMAIN LowerOf THEN LowerOf[s[i]] ELSE s[i]]
    ELSE lowerEach(s, caseClasses(s))

\* String.prototype.trim
RECURSIVE trimStart(_)
trimStart(s) ==
    IF s # <<>> /\ Head(s) \in Whitespace THEN trimStart(Tail(s)) ELSE s

RECURSIVE trimEnd(_)
trimEnd(s) ==
    IF s # <<>> /\ s[Len(s)] \in Whitespace
    THEN trimEnd(SubSeq(s, 1, Len(s) - 1)) ELSE s

trim(s) == trimEnd(trimStart(s))

\* the unit strings used below
U_tablet == <<"t","a","b","l","e","t">>
U_tablets == <<"t","a","b","l","e","t","s">>
U_tab == <<"t","a","b">>
U_capsule == <<"c","a","p","s","u","l","e">>
U_capsules == <<"c","a","p","s","u","l","e","s">>
U_cap == <<"c","a","p">>
U_ml == <<"m","l">>
U_milliliter == <<"m","i","l","l","i","l","i","t","e","r">>
U_milliliters == U_milliliter \o <<"s">>
U_mg == <<"m","g">>
U_milligram == <<"m","i","l","l","i","g","r","a","m">>
U_milligrams == U_milligram \o <<"s">>
U_g == <<"g">>
U_gram == <<"g","r","a","m">>
U_grams == <<"g","r","a","m","s">>
U_mcg == <<"m","c","g">>
U_microgram == <<"m","i","c","r","o","g","r","a","m">>
U_micrograms == U_microgram \o <<"s">>
U_ug == <<"u","g">>
U_patch == <<"p","a","t","c","h">>
U_Tablet_padded == <<" ","T","a","b","l","e","t"," ">>
\* the Greek for `doses` in capitals, and in small letters with the final sigma
U_DOSEIS == <<"U+0394","U+039F","U+03A3","U+0395","U+0399","U+03A3">>
U_doseis == <<"U+03B4","U+03BF","U+03C3","U+03B5","U+03B9","U+03C2">>
U_tablet_crlf == <<"\r","\n","t","a","b","l","e","t","\r","\n">>

----------------------------------------------------------------------------
(* ndc-selector.ts *)

\* calculateOverfill works in IEEE 754 double arithmetic.  A double is held as
\* [m, e]: m its 53 significand bits, most significant first, and e the
\* exponent of the last bit, so that its magnitude is the integer m * 2^e.
DoubleBits == 53

\* the last w binary digits of n >= 0, most significant first
bitsOfWidth(n, w) == [i \in 1..w |-> (n \div 2^(w - i)) % 2]

\* the binary digits of n, 0 < n < 2^30, most significant first
intBits(n) == bitsOfWidth(n, CHOOSE w \in 1..30 : 2^(w - 1) <= n /\ n < 2^w)

\* the integer with the binary digits b
RECURSIVE bitsInt(_)
bitsInt(b) ==
    IF Len(b) = 0 THEN 0
    ELSE IF Len(b) = 1 THEN b[1]
    ELSE LET half == Len(b) \div 2
         IN  bitsInt(SubSeq(b, 1, half)) * 2^(Len(b) - half)
             + bitsInt(SubSeq(b, half + 1, Len(b)))

hasOne(b) == \E i \in 1..Len(b) : b[i] = 1

\* b + 1 for a significand b that is not all ones
bitsIncrement(b) ==
    LET last0 == CHOOSE i \in 1..Len(b) : b[i] = 0 /\ \A j \in (i + 1)..Len(b) : b[j] = 1
    IN  [i \in 1..Len(b) |-> IF i < last0 THEN b[i] ELSE IF i = last0 THEN 1 ELSE 0]

\* the double nearest bits * 2^e (plus a little when sticky), ties to even
roundToDouble(bits, e, sticky) ==
    IF Len(bits) <= DoubleBits
    THEN [m |-> bits \o [i \in 1..(DoubleBits - Len(bits)) |-> 0],
          e |-> e - (DoubleBits - Len(bits))]
    ELSE LET m == SubSeq(bits, 1, DoubleBits)
             rest == SubSeq(bits, DoubleBits + 1, Len(bits))
             up == /\ rest[1] = 1
                   /\ (sticky \/ hasOne(Tail(rest)) \/ m[DoubleBits] = 1)
         IN  IF ~up THEN [m |-> m, e |-> e + Len(rest)]
             ELSE IF \A i \in 1..DoubleBits : m[i] = 1
             THEN [m |-> <<1>> \o [i \in 1..(DoubleBits - 1) |-> 0], e |-> e + Len(rest) + 1]
             ELSE [m |-> bitsIncrement(m), e |-> e + Len(rest)]

\* long division by q < 2^30, one quotient bit at a step, up to DoubleBits + 1
\* significant bits: d.bits are the significant bits so far, d.r the remainder
\* and d.f the number of fraction bits produced
RECURSIVE divideBits(_, _)
divideBits(d, q) ==
    IF Len(d.bits) > DoubleBits THEN roundToDouble(d.bits, 0 - d.f, d.r # 0)
    ELSE LET b == (2 * d.r) \div q
         IN  divideBits([bits |-> IF d.bits = <<>> /\ b = 0 THEN <<>> ELSE Append(d.bits, b),
                         r |-> (2 * d.r) % q,
                         f |-> d.f + 1], q)

\* the double a / q for integers 0 < a < 2^30, 0 < q < 2^30
doubleDivide(a, q) ==
    divideBits([bits |-> IF a < q THEN <<>> ELSE intBits(a \div q), r |-> a % q, f |-> 0], q)

\* the double x * k for an integer k, 0 < k < 2^10: the significand is
\* multiplied in three parts of at most 20 bits
doubleTimes(x, k) ==
    LET SignificandPart == 20
        base == 2^SignificandPart
        low == k * bitsInt(SubSeq(x.m, DoubleBits - SignificandPart + 1, DoubleBits))
        mid == k * bitsInt(SubSeq(x.m, DoubleBits - 2 * SignificandPart + 1,
                                  DoubleBits - SignificandPart))
               + low \div base
        high == k * bitsInt(SubSeq(x.m, 1, DoubleBits - 2 * SignificandPart))
                + mid \div base
    IN  roundToDouble(intBits(high) \o bitsOfWidth(mid % base, SignificandPart)
                          \o bitsOfWidth(low % base, SignificandPart),
                      x.e, FALSE)

\* the sign of x - n/2 for a double x > 0 and an integer n > 0
compareToHalves(x, n) ==
    LET k == 0 - (x.e + 1)
        whole == IF k >= DoubleBits THEN 0 ELSE bitsInt(SubSeq(x.m, 1, DoubleBits - k))
        fraction == IF k >= DoubleBits THEN TRUE
                    ELSE hasOne(SubSeq(x.m, DoubleBits - k + 1, DoubleBits))
    IN  IF k <= 0 \/ whole > n THEN 1
        ELSE IF whole < n THEN -1
        ELSE IF fraction THEN 1 ELSE 0

\* Math.round(overfill * 100) where the exact value of overfill * 100 lies
\* halfway between two integers: the double that the two divisions and the two
\* multiplications produce lies on the half or just beside it, and Math.round
\* gives the integer above a half it reaches and the one below otherwise
roundAtTie(difference, quantityNeeded) ==
    LET scaled == difference * 100 * PctScale
        overfill == doubleTimes(doubleDivide(Abs(difference), quantityNeeded), 100)
        side == compareToHalves(doubleTimes(overfill, 100),
                                (2 * Abs(scaled)) \div quantityNeeded)
        belowHalf == IF difference > 0 THEN side < 0 ELSE side > 0
    IN  IF belowHalf THEN RoundDiv(scaled, quantityNeeded) - 1
        ELSE RoundDiv(scaled, quantityNeeded)

\* calculateOverfill, in hundredths of a percent.  Away from a tie the double
\* is nearer to the exact value than the exact value is to a half, and
\* Math.round gives the exact rounding.
calculateOverfill(packageSize, quantityNeeded) ==
    IF quantityNeeded = 0 THEN 0
    ELSE LET scaled == (packageSize - quantityNeeded) * 100 * PctScale
             tie == (2 * scaled) % quantityNeeded = 0 /\ scaled % quantityNeeded # 0
         IN  IF tie THEN roundAtTie(packageSize - quantityNeeded, quantityNeeded)
             ELSE RoundDiv(scaled, quantityNeeded)

\* the table `equivalents` of unitsMatch: <<standard, alternatives>>
equivalents ==
    << <<U_tablet, {U_tab, U_tablets}>>,
       <<U_capsule, {U_cap, U_capsules}>>,
       <<U_ml, {U_milliliter, U_milliliters}>>,
       <<U_mg, {U_milligram, U_milligrams}>>,
       <<U_g, {U_gram, U_grams}>>,
       <<U_mcg, {U_microgram, U_micrograms, U_ug}>> >>

\* the tests of unitsMatch on the two normalised units, without the 'es' plural rule
normalizedMatchNoEs(pkg, calc) ==
    \/ pkg = calc
    \/ pkg \o <<"s">> = calc \/ calc \o <<"s">> = pkg
    \/ \E i \in 1..Len(equivalents) :
          /\ (pkg = equivalents[i][1] \/ pkg \in equivalents[i][2])
          /\ (calc = equivalents[i][1] \/ calc \in equivalents[i][2])

\* the tests of unitsMatch on the two normalised units
normalizedMatch(pkg, calc) ==
    \/ pkg = calc
    \/ pkg \o <<"s">> = calc \/ calc \o <<"s">> = pkg
    \/ pkg \o <<"e","s">> = calc \/ calc \o <<"e","s">> = pkg
    \/ \E i \in 1..Len(equivalents) :
          /\ (pkg = equivalents[i][1] \/ pkg \in equivalents[i][2])
          /\ (calc = equivalents[i][1] \/ calc \in equivalents[i][2])

\* const normalize = (unit) => unit.toLowerCase().trim()
normalize(unit) == trim(toLowerCase(unit))

\* unitsMatch without the 'es' plural rule
unitsMatchNoEs(packageUnit, calculationUnit) ==
    normalizedMatchNoEs(normalize(packageUnit), normalize(calculationUnit))

unitsMatch(packageUnit, calculationUnit) ==
    normalizedMatch(normalize(packageUnit), normalize(calculationUnit))

\* filterCompatiblePackages without the active test
filterCompatiblePackagesAnyStatus(pkgs, calc) ==
    SelectSeq(pkgs, LAMBDA pkg : unitsMatch(pkg.packageUnit, calc.unit))

filterCompatiblePackages(pkgs, calc) ==
    SelectSeq(pkgs, LAMBDA pkg : pkg.active /\ unitsMatch(pkg.packageUnit, calc.unit))

\* scorePackage ranking a package smaller than the need by the waste of its
\* repeated total instead of by its distance from the need
scorePackageByWaste(pkg, quantityNeeded) ==
    IF pkg.packageSize < quantityNeeded
    THEN PenaltyBand * PctScale
         + calculateOverfill(pkg.packageSize * CeilDiv(quantityNeeded, pkg.packageSize),
                             quantityNeeded)
    ELSE IF pkg.packageSize = quantityNeeded THEN 0
    ELSE Abs(calculateOverfill(pkg.packageSize, quantityNeeded))

\* scorePackage, in hundredths (lower is better)
scorePackage(pkg, quantityNeeded) ==
    IF pkg.packageSize < quantityNeeded
    THEN (PenaltyBand + (quantityNeeded - pkg.packageSize)) * PctScale
    ELSE IF pkg.packageSize = quantityNeeded THEN 0
    ELSE Abs(calculateOverfill(pkg.packageSize, quantityNeeded))

\* makeSelection with Math.floor in place of Math.ceil
makeSelectionFloor(pkg, quantityNeeded) ==
    LET numPackages == quantityNeeded \div pkg.packageSize
        totalDispensed == pkg.packageSize * numPackages
    IN  [ndc |-> pkg.ndc,
         packageSize |-> pkg.packageSize,
         packageUnit |-> pkg.packageUnit,
         quantityToDispense |-> totalDispensed,
         numberOfPackages |-> numPackages,
         overfillPercentage |-> calculateOverfill(totalDispensed, quantityNeeded),
         productName |-> pkg.productName,
         manufacturer |-> pkg.manufacturer,
         score |-> scorePackage(pkg, quantityNeeded)]

\* the objects built by compatible.map(...) in selectOptimalNDCs
makeSelection(pkg, quantityNeeded) ==
    LET singlePackageQty == pkg.packageSize
        numPackages == CeilDiv(quantityNeeded, singlePackageQty)
        totalDispensed == singlePackageQty * numPackages
    IN  [ndc |-> pkg.ndc,
         packageSize |-> pkg.packageSize,
         packageUnit |-> pkg.packageUnit,
         quantityToDispense |-> totalDispensed,
         numberOfPackages |-> numPackages,
         overfillPercentage |-> calculateOverfill(totalDispensed, quantityNeeded),
         productName |-> pkg.productName,
         manufacturer |-> pkg.manufacturer,
         score |-> scorePackage(pkg, quantityNeeded)]

\* insertion of x into a list sorted by score, after every entry that does not
\* score higher (Array.prototype.sort is stable)
RECURSIVE insertByScore(_, _)
insertByScore(x, sorted) ==
    IF sorted = <<>> THEN <<x>>
    ELSE IF Head(sorted).score <= x.score
         THEN <<Head(sorted)>> \o insertByScore(x, Tail(sorted))
         ELSE <<x>> \o sorted

\* selections.sort((a, b) => a.score - b.score)
RECURSIVE sortByScore(_)
sortByScore(s) ==
    IF s = <<>> THEN <<>>
    ELSE insertByScore(s[Len(s)], sortByScore(SubSeq(s, 1, Len(s) - 1)))

\* the index that a bound of slice stands for: a negative bound counts from the
\* end of the array, and the result is held within 0..len
sliceBound(bound, len) ==
    IF bound < 0 THEN (IF len + bound < 0 THEN 0 ELSE len + bound)
    ELSE IF bound > len THEN len ELSE bound

\* slice starting one entry early
sliceFromBefore(s, from, to) ==
    SubSeq(s, sliceBound(from, Len(s)), sliceBound(to, Len(s)))

\* Array.prototype.slice(from, to) with 0-based bounds
slice(s, from, to) ==
    SubSeq(s, sliceBound(from, Len(s)) + 1, sliceBound(to, Len(s)))

\* warnings of selectOptimalNDCs
W_ZeroQuantity == Msg("Quantity could not be calculated (PRN or ambiguous SIG). Please dispense appropriate amount.")
W_NoCompatible == Msg("No compatible active NDCs found")
W_Overfill(pct, max) == Msg2("Primary selection has {pct}% overfill (exceeds {max}% threshold)", pct, max)
W_MultiPackage(n) == Msg1("Requires {n} packages to fulfill prescription", n)

\* an absent option takes its default
optionOr(o, default) == IF IsSome(o) THEN Get(o) ELSE default

\* selectOptimalNDCs filtering before the zero-quantity test
selectOptimalNDCsFilterFirst(pkgs, calc, options) ==
    LET maxOverfillPercent == optionOr(options.maxOverfillPercent, DefaultMaxOverfill)
        maxAlternatives == optionOr(options.maxAlternatives, DefaultMaxAlternatives)
        quantityNeeded == calc.totalQuantityNeeded
        compatible == filterCompatiblePackages(pkgs, calc)
        selections ==
            sortByScore([i \in 1..Len(compatible) |-> makeSelection(compatible[i], quantityNeeded)])
        primary == <<selections[1]>>
        w1 == IF primary[1].overfillPercentage > maxOverfillPercent * PctScale
              THEN <<W_Overfill(primary[1].overfillPercentage, maxOverfillPercent)>>
              ELSE <<>>
        w2 == IF primary[1].numberOfPackages > 1
              THEN <<W_MultiPackage(primary[1].numberOfPackages)>>
              ELSE <<>>
    IN  IF Len(compatible) = 0
        THEN [primary |-> <<>>, alternatives |-> <<>>, warnings |-> <<W_NoCompatible>>]
        ELSE IF quantityNeeded = 0
        THEN [primary |-> <<>>, alternatives |-> <<>>, warnings |-> <<W_ZeroQuantity>>]
        ELSE [primary |-> primary,
              alternatives |-> slice(selections, 1, maxAlternatives + 1),
              warnings |-> w1 \o w2]

\* selectOptimalNDCs warning at the overfill threshold itself
selectOptimalNDCsWarnAtThreshold(pkgs, calc, options) ==
    LET maxOverfillPercent == optionOr(options.maxOverfillPercent, DefaultMaxOverfill)
        maxAlternatives == optionOr(options.maxAlternatives, DefaultMaxAlternatives)
        quantityNeeded == calc.totalQuantityNeeded
        compatible == filterCompatiblePackages(pkgs, calc)
        selections ==
            sortByScore([i \in 1..Len(compatible) |-> makeSelection(compatible[i], quantityNeeded)])
        primary == <<selections[1]>>
        w1 == IF primary[1].overfillPercentage >= maxOverfillPercent * PctScale
              THEN <<W_Overfill(primary[1].overfillPercentage, maxOverfillPercent)>>
              ELSE <<>>
        w2 == IF primary[1].numberOfPackages > 1
              THEN <<W_MultiPackage(primary[1].numberOfPackages)>>
              ELSE <<>>
    IN  IF quantityNeeded = 0
        THEN [primary |-> <<>>, alternatives |-> <<>>, warnings |-> <<W_ZeroQuantity>>]
        ELSE IF Len(compatible) = 0
        THEN [primary |-> <<>>, alternatives |-> <<>>, warnings |-> <<W_NoCompatible>>]
        ELSE [primary |-> primary,
              alternatives |-> slice(selections, 1, maxAlternatives + 1),
              warnings |-> w1 \o w2]

\* selectArrays with the filter done in place on the array it was given
selectArraysFilteringInPlace(pkgs, calc) ==
    LET compatible == filterCompatiblePackages(pkgs, calc)
        mapped == [i \in 1..Len(compatible) |->
                      makeSelection(compatible[i], calc.totalQuantityNeeded)]
    IN  [packages |-> compatible, compatible |-> compatible,
         selections |-> sortByScore(mapped)]

\* The arrays of selectOptimalNDCs once it has sorted, by the variable that
\* holds each; `packages` is the caller's array.  packages.filter(...) and
\* compatible.map(...) each build a new array and leave the array they are
\* called on as it was; selections.sort(...) orders the array it is called on.
selectArrays(pkgs, calc) ==
    LET filtered == [packages |-> pkgs,
                     compatible |-> filterCompatiblePackages(pkgs, calc)]
        mapped == [packages |-> filtered.packages,
                   compatible |-> filtered.compatible,
                   selections |-> [i \in 1..Len(filtered.compatible) |->
                                      makeSelection(filtered.compatible[i],
                                                    calc.totalQuantityNeeded)]]
    IN  [mapped EXCEPT !.selections = sortByScore(@)]

selectOptimalNDCs(pkgs, calc, options) ==
    LET maxOverfillPercent == optionOr(options.maxOverfillPercent, DefaultMaxOverfill)
        maxAlternatives == optionOr(options.maxAlternatives, DefaultMaxAlternatives)
        quantityNeeded == calc.totalQuantityNeeded
        arrays == selectArrays(pkgs, calc)
        compatible == arrays.compatible
        selections == arrays.selections
        primary == <<selections[1]>>
        w1 == IF primary[1].overfillPercentage > maxOverfillPercent * PctScale
              THEN <<W_Overfill(primary[1].overfillPercentage, maxOverfillPercent)>>
              ELSE <<>>
        w2 == IF primary[1].numberOfPackages > 1
              THEN <<W_MultiPackage(primary[1].numberOfPackages)>>
              ELSE <<>>
    IN  IF quantityNeeded = 0
        THEN [primary |-> <<>>, alternatives |-> <<>>, warnings |-> <<W_ZeroQuantity>>]
        ELSE IF Len(compatible) = 0
        THEN [primary |-> <<>>, alternatives |-> <<>>, warnings |-> <<W_NoCompatible>>]
        ELSE [primary |-> primary,
              alternatives |-> slice(selections, 1, maxAlternatives + 1),
              warnings |-> w1 \o w2]

\* the caller's array after selectOptimalNDCs(pkgs, calc, ...): untouched on the
\* zero-quantity return, which comes before any array is read
packagesAfterSelect(pkgs, calc) ==
    IF calc.totalQuantityNeeded = 0 THEN pkgs ELSE selectArrays(pkgs, calc).packages

\* checkForInactiveNDCs
W_Inactive(n) == Msg1("{n} inactive NDC(s) found. These have been excluded from selection.", n)

checkForInactiveNDCs(pkgs) ==
    LET inactiveCount == Len(SelectSeq(pkgs, LAMBDA pkg : ~pkg.active))
    IN  IF inactiveCount > 0 THEN <<W_Inactive(inactiveCount)>> ELSE <<>>

----------------------------------------------------------------------------
(* quantity-calculator.ts *)

\* the outcome of a call that may throw
Return(v) == [ok |-> TRUE, value |-> v]
Throw(e) == [ok |-> FALSE, error |-> e]

\* a thrown value: what kind of value it is and the message it carries, if any
\*   "Error"   an Error instance          "object"  a plain object (APIError)
\*   "string"  a string (no .message)     "bare"    an object without a message
\*   "null"    null                       "undefined"  undefined
Thrown(kind, message) == [kind |-> kind, message |-> message]
APIError(text) == Thrown("object", Some(Msg(text)))

E_SigRequired == Msg("ParsedSIG is required")
E_DaysPositive == Msg("Days supply must be greater than 0")
E_DaysTooLong == Msg("Days supply cannot exceed 365 days")
E_DaysNumber == Msg("Days supply must be a valid number")
E_DaysWhole == Msg("Days supply must be a whole number")

\* calculateQuantity with the isAmbiguous test of the PRN branch left out
calculateQuantityIgnoringAmbiguity(sig, daysSupply) ==
    IF ~IsSome(sig) THEN Throw(Thrown("object", Some(E_SigRequired)))
    ELSE IF daysSupply <= 0 THEN Throw(Thrown("object", Some(E_DaysPositive)))
    ELSE IF daysSupply > MaxDaysSupply THEN Throw(Thrown("object", Some(E_DaysTooLong)))
    ELSE LET dailyDose == Get(sig).dose * Get(sig).frequency
         IN  Return([totalQuantityNeeded |-> dailyDose * daysSupply,
                     unit |-> Get(sig).doseUnit,
                     daysSupply |-> daysSupply,
                     dailyDose |-> dailyDose])

\* calculateQuantity(sig, daysSupply), sig: ParsedSIG | undefined
calculateQuantity(sig, daysSupply) ==
    IF ~IsSome(sig) THEN Throw(Thrown("object", Some(E_SigRequired)))
    ELSE IF daysSupply <= 0 THEN Throw(Thrown("object", Some(E_DaysPositive)))
    ELSE IF daysSupply > MaxDaysSupply THEN Throw(Thrown("object", Some(E_DaysTooLong)))
    ELSE IF Get(sig).frequency = 0 \/ Get(sig).isAmbiguous
    THEN Return([totalQuantityNeeded |-> 0,
                 unit |-> Get(sig).doseUnit,
                 daysSupply |-> daysSupply,
                 dailyDose |-> 0])
    ELSE LET dailyDose == Get(sig).dose * Get(sig).frequency
             totalQuantity == dailyDose * daysSupply
         IN  Return([totalQuantityNeeded |-> totalQuantity,
                     unit |-> Get(sig).doseUnit,
                     daysSupply |-> daysSupply,
                     dailyDose |-> dailyDose])

\* A days-supply argument as the caller may pass it: a number, held as twice its
\* value so that a half is representable, NaN, or a value that is not a number.
Days(n) == [type |-> "number", twice |-> 2 * n]
HalfDays(twice) == [type |-> "number", twice |-> twice]
NaN == [type |-> "NaN", twice |-> 0]
NotANumber == [type |-> "string", twice |-> 0]

\* validateDaysSupply rejecting the upper bound itself
validateDaysSupplyBelowMax(daysSupply) ==
    LET errs == IF daysSupply.type # "number" THEN <<E_DaysNumber>>
                ELSE IF daysSupply.twice <= 0 THEN <<E_DaysPositive>>
                ELSE IF daysSupply.twice >= 2 * MaxDaysSupply THEN <<E_DaysTooLong>>
                ELSE IF daysSupply.twice % 2 # 0 THEN <<E_DaysWhole>>
                ELSE <<>>
    IN  [valid |-> Len(errs) = 0, errors |-> errs]

validateDaysSupply(daysSupply) ==
    LET errs == IF daysSupply.type # "number" THEN <<E_DaysNumber>>
                ELSE IF daysSupply.twice <= 0 THEN <<E_DaysPositive>>
                ELSE IF daysSupply.twice > 2 * MaxDaysSupply THEN <<E_DaysTooLong>>
                ELSE IF daysSupply.twice % 2 # 0 THEN <<E_DaysWhole>>
                ELSE <<>>
    IN  [valid |-> Len(errs) = 0, errors |-> errs]

\* calculateTaperQuantity
E_TaperRequired == Msg("Taper schedule is required")
E_TaperInvalid == Msg("Invalid taper schedule: tablets and days must be positive")

\* taperLoop without the test of each step
RECURSIVE taperLoopUnchecked(_, _, _, _)
taperLoopUnchecked(taperSchedule, i, totalQuantity, totalDays) ==
    IF i > Len(taperSchedule)
    THEN Return([totalQuantityNeeded |-> totalQuantity,
                 unit |-> U_tablet,
                 daysSupply |-> totalDays,
                 dailyDose |-> IF totalDays > 0
                               THEN [num |-> totalQuantity, den |-> totalDays]
                               ELSE [num |-> 0, den |-> 1]])
    ELSE taperLoopUnchecked(taperSchedule, i + 1,
                            totalQuantity + taperSchedule[i].tablets * taperSchedule[i].days,
                            totalDays + taperSchedule[i].days)

\* the loop over the steps from step i on, and the return after it; the average
\* daily dose totalQuantity / totalDays is held as the fraction num / den
RECURSIVE taperLoop(_, _, _, _)
taperLoop(taperSchedule, i, totalQuantity, totalDays) ==
    IF i > Len(taperSchedule)
    THEN Return([totalQuantityNeeded |-> totalQuantity,
                 unit |-> U_tablet,
                 daysSupply |-> totalDays,
                 dailyDose |-> IF totalDays > 0
                               THEN [num |-> totalQuantity, den |-> totalDays]
                               ELSE [num |-> 0, den |-> 1]])
    ELSE IF taperSchedule[i].tablets < 0 \/ taperSchedule[i].days <= 0
    THEN Throw(Thrown("object", Some(E_TaperInvalid)))
    ELSE taperLoop(taperSchedule, i + 1,
                   totalQuantity + taperSchedule[i].tablets * taperSchedule[i].days,
                   totalDays + taperSchedule[i].days)

\* calculateTaperQuantity(taperSchedule); an absent schedule is the empty one
calculateTaperQuantity(taperSchedule) ==
    IF Len(taperSchedule) = 0 THEN Throw(Thrown("object", Some(E_TaperRequired)))
    ELSE taperLoop(taperSchedule, 1, 0, 0)

\* estimatePRNQuantity(sig, daysSupply, maxDailyUse = 4)
estimatePRNQuantity(sig, daysSupply, maxDailyUse) ==
    LET estimatedDailyDose == sig.dose * optionOr(maxDailyUse, DefaultMaxDailyUse)
        totalQuantity == estimatedDailyDose * daysSupply
    IN  [totalQuantityNeeded |-> totalQuantity,
         unit |-> sig.doseUnit,
         daysSupply |-> daysSupply,
         dailyDose |-> estimatedDailyDose]

W_HighQuantity(q) == Msg1("Very high quantity calculated ({q} {unit}). Please verify.", q)
W_HighDailyDose(d) == Msg1("Very high daily dose ({d} {unit}/day). Please verify.", d)
W_ZeroReview == Msg("Quantity could not be calculated (PRN or ambiguous SIG). Manual review required.")

\* isQuantityReasonable with the limits included
isQuantityReasonableInclusive(calc) ==
    LET w == (IF calc.totalQuantityNeeded >= HighQuantity
              THEN <<W_HighQuantity(calc.totalQuantityNeeded)>> ELSE <<>>)
             \o (IF calc.dailyDose >= HighDailyDose
                 THEN <<W_HighDailyDose(calc.dailyDose)>> ELSE <<>>)
             \o (IF calc.totalQuantityNeeded = 0 THEN <<W_ZeroReview>> ELSE <<>>)
    IN  [reasonable |-> Len(w) = 0, warnings |-> w]

isQuantityReasonable(calc) ==
    LET w == (IF calc.totalQuantityNeeded > HighQuantity
              THEN <<W_HighQuantity(calc.totalQuantityNeeded)>> ELSE <<>>)
             \o (IF calc.dailyDose > HighDailyDose
                 THEN <<W_HighDailyDose(calc.dailyDose)>> ELSE <<>>)
             \o (IF calc.totalQuantityNeeded = 0 THEN <<W_ZeroReview>> ELSE <<>>)
    IN  [reasonable |-> Len(w) = 0, warnings |-> w]

----------------------------------------------------------------------------
(* normalizer.ts *)

\* input.replace(/[\s-]/g, '')
stripSpacesAndDashes(s) == SelectSeq(s, LAMBDA c : c \notin Whitespace \cup {"-"})

\* isNDCFormat accepting 11 digits only
isNDCFormatElevenOnly(in) ==
    LET c == stripSpacesAndDashes(in)
    IN  Len(c) = 11 /\ \A i \in 1..Len(c) : c[i] \in Digits

\* /^\d{10,11}$/ on the stripped input
isNDCFormat(in) ==
    LET c == stripSpacesAndDashes(in)
    IN  Len(c) \in {10, 11} /\ \A i \in 1..Len(c) : c[i] \in Digits

E_DrugRequired == Msg("Drug name or NDC is required")
E_DrugTooShort == Msg("Drug name or NDC must be at least 2 characters")
E_DrugTooLong == Msg("Drug name or NDC is too long (max 200 characters)")
E_InvalidNDC == Msg("Invalid NDC format (must be 10 or 11 digits)")

validateDrugInput(in) ==
    IF Len(trim(in)) = 0
    THEN [valid |-> FALSE, cleaned |-> <<>>, errors |-> <<E_DrugRequired>>]
    ELSE LET c == trim(in)
             looksLikeNDC == \A i \in 1..Len(c) : c[i] \in Digits \cup Whitespace \cup {"-"}
             errs == (IF Len(c) < MinDrugLen THEN <<E_DrugTooShort>> ELSE <<>>)
                     \o (IF Len(c) > MaxDrugLen THEN <<E_DrugTooLong>> ELSE <<>>)
                     \o (IF looksLikeNDC /\ ~isNDCFormat(c) THEN <<E_InvalidNDC>> ELSE <<>>)
         IN  [valid |-> Len(errs) = 0, cleaned |-> c, errors |-> errs]

\* `error instanceof Error ? error.message : 'Unknown error'`
E_Unknown == Msg("Unknown error")
messageOfError(error) ==
    IF error.kind = "Error" /\ IsSome(error.message) THEN Get(error.message)
    ELSE IF error.kind = "Error" THEN Msg("")
    ELSE E_Unknown

\* "Failed to normalize drug: ${...}"
E_NormalizeFailed(m) == <<"Failed to normalize drug: " \o m[1], m[2], m[3]>>

\* normalizeDrug(input), given what the resolver it calls does (resolved: the
\* outcome of ndcToRxCUI / drugNameToRxCUI).  Yields the resolver called, the
\* argument passed to it, and the outcome.
normalizeDrug(in, resolved) ==
    IF Len(trim(in)) = 0
    THEN [resolver |-> None, argument |-> None,
          outcome |-> Throw(Thrown("object", Some(E_DrugRequired)))]
    ELSE [resolver |-> Some(IF isNDCFormat(trim(in)) THEN "ndcToRxCUI" ELSE "drugNameToRxCUI"),
          argument |-> Some(trim(in)),
          outcome |-> IF resolved.ok THEN resolved
                      ELSE Throw(Thrown("object",
                                        Some(E_NormalizeFailed(messageOfError(resolved.error)))))]

----------------------------------------------------------------------------
(* Data the operations are applied to *)

Package(ndc, size, unit, active) ==
    [ndc |-> ndc, packageSize |-> size, packageUnit |-> unit,
     productName |-> "Test Drug", manufacturer |-> "Test Pharma", active |-> active]

\* the package records of the FDA directory known to the model
P_tab30 == Package("00001-0030-01", 30, U_tablet, TRUE)
P_tab60 == Package("00001-0060-01", 60, U_tablet, TRUE)
P_tab30old == Package("00001-0030-99", 30, U_tablet, FALSE)
P_ml100 == Package("00002-0100-01", 100, U_ml, TRUE)
PipeCatalog == {P_tab30, P_tab60, P_tab30old, P_ml100}

\* the record getNDCPackageInfo finds for a code
packageOf(code) == CHOOSE p \in PipeCatalog : p.ndc = code

\* the values a replaced or failing collaborator may throw or reject with
isNullish(error) == error.kind \in {"null", "undefined"}

\* the TypeError of reading .message of null or of undefined
TypeErrorOfNullish(error) ==
    [kind |-> "Error",
     message |-> Some(IF error.kind = "null"
                      THEN Msg("Cannot read properties of null (reading 'message')")
                      ELSE Msg("Cannot read properties of undefined (reading 'message')"))]
ThrownValues ==
    {[kind |-> "Error", message |-> Some(Msg("Unexpected error"))],
     [kind |-> "object", message |-> Some(Msg("Service unavailable"))],
     [kind |-> "object", message |-> Some(Msg(""))],
     [kind |-> "string", message |-> None],
     [kind |-> "bare", message |-> None],
     [kind |-> "null", message |-> None],
     [kind |-> "undefined", message |-> None]}
StepFaults == {[ok |-> FALSE, error |-> t] : t \in ThrownValues}

\* bounds of the dosing a reply of the interpreter may carry
MaxDose == 2
MaxFrequency == 2

Sig(dose, unit, frequency, ambiguous, clarification) ==
    [dose |-> dose, doseUnit |-> unit, frequency |-> frequency, route |-> "oral",
     instructions |-> "instructions", isAmbiguous |-> ambiguous,
     clarificationNeeded |-> clarification]

C_Clarify == Msg("Please clarify the frequency")

\* ParsedSIG values (frequency 0 is PRN)
ParsedSIGs ==
    {Sig(d, U_tablet, f, a[1], a[2]) :
        d \in 1..MaxDose, f \in 0..MaxFrequency,
        a \in {<<FALSE, None>>, <<TRUE, None>>, <<TRUE, Some(C_Clarify)>>}}

S_empty == <<>>
S_a == <<"a">>
S_aspirin == <<" ","a","s","p","i","r","i","n"," ">>
S_ndc == <<"1","2","3","4","5","-","6","7","8","9","-","0","1">>
S_123 == <<"1","2","3">>
DrugInputs == {S_empty, S_a, S_aspirin, S_ndc, S_123}

DaysInputs == {Days(0), Days(1), Days(30), Days(MaxDaysSupply), Days(MaxDaysSupply + 1),
               HalfDays(61), NaN}

CalculationInputs ==
    {[drugNameOrNDC |-> d, sig |-> "Take as directed", daysSupply |-> n] :
        d \in DrugInputs, n \in DaysInputs}

RxCUI == [rxcui |-> "29046", name |-> "Lisinopril"]

----------------------------------------------------------------------------
(* calculator.ts: calculatePrescription *)

E_NormalizeFallback == Msg("Failed to normalize drug name or NDC")
E_ParseFallback == Msg("Failed to parse prescription instructions")
E_QuantityFallback == Msg("Failed to calculate quantity")
E_Unexpected == Msg("An unexpected error occurred during calculation")
W_Ambiguous == Msg("Prescription instructions are ambiguous and may need manual review")
W_NoNDCs == Msg("No NDC codes found for this drug - this is a known limitation of the public RxNorm API")
W_NDCsFallback == Msg("Failed to retrieve NDC codes from RxNorm")
W_NoPackageInfo == Msg("No package information found for available NDCs")
W_PackagesFallback == Msg("Failed to retrieve package information from FDA")
W_SelectFallback == Msg("Failed to select optimal NDCs")
W_CannotSelect == Msg("Cannot select NDCs: no compatible packages available")

\* `apiError.message || fallback`, for a thrown value that is not null/undefined:
\* a missing and an empty message both give the fallback
messageOr(error, fallback) ==
    IF IsSome(error.message) /\ Get(error.message) # Msg("") THEN Get(error.message)
    ELSE fallback

createErrorResult(in, errs, warns, nd, ps, calc) ==
    [success |-> FALSE, input |-> in, normalizedDrug |-> nd, parsedSIG |-> ps,
     calculation |-> calc, selectedNDCs |-> <<>>, alternativeNDCs |-> None,
     warnings |-> warns, errors |-> Some(errs)]

\* createPartialResult deciding success from the errors alone
createPartialResultErrorsOnly(in, nd, ps, calc, sel, alt, warns, errs) ==
    [success |-> Len(errs) = 0, input |-> in, normalizedDrug |-> nd,
     parsedSIG |-> ps, calculation |-> calc, selectedNDCs |-> sel,
     alternativeNDCs |-> IF IsSome(alt) /\ Len(Get(alt)) > 0 THEN alt ELSE None,
     warnings |-> warns,
     errors |-> IF Len(errs) > 0 THEN Some(errs) ELSE None]

createPartialResult(in, nd, ps, calc, sel, alt, warns, errs) ==
    [success |-> Len(errs) = 0 /\ Len(sel) > 0, input |-> in, normalizedDrug |-> nd,
     parsedSIG |-> ps, calculation |-> calc, selectedNDCs |-> sel,
     alternativeNDCs |-> IF IsSome(alt) /\ Len(Get(alt)) > 0 THEN alt ELSE None,
     warnings |-> warns,
     errors |-> IF Len(errs) > 0 THEN Some(errs) ELSE None]

\* the object literal returned at the end of the try block
finalResult(in, nd, ps, calc, sel, alt, warns, errs) ==
    [success |-> Len(errs) = 0 /\ Len(sel) > 0, input |-> in, normalizedDrug |-> nd,
     parsedSIG |-> ps, calculation |-> calc, selectedNDCs |-> sel,
     alternativeNDCs |-> IF IsSome(alt) /\ Len(Get(alt)) > 0 THEN alt ELSE None,
     warnings |-> warns,
     errors |-> IF Len(errs) > 0 THEN Some(errs) ELSE None]

\* an entry of the history `failed`: the step, and the value it threw, if it threw
Failure(step, error) == [step |-> step, error |-> error]

\* return res from calculatePrescription
Finish(res, errs, warns) ==
    /\ result' = Some(res)
    /\ errors' = errs
    /\ warnings' = warns
    /\ pc' = "done"
    /\ UNCHANGED escaped

\* The catch-all handler.  Reading .message of null/undefined throws inside the
\* handler, and that exception leaves the function.
TopLevelCatch(error, inner) ==
    /\ caughtBy' = caughtBy \o inner \o <<"top-level">>
    /\ IF isNullish(error)
       THEN /\ escaped' = TRUE
            /\ pc' = "done"
            /\ UNCHANGED <<result, errors, warnings>>
       ELSE LET errs == Append(errors, messageOr(error, E_Unexpected))
            IN  Finish(createErrorResult(input, errs, warnings, normalizedDrug, parsedSIG,
                                      calculation),
                    errs, warnings)

\* FatalCatch demoting the failure to a warning, as the recoverable steps do
FatalCatchAsWarning(error, fallback) ==
    IF isNullish(error) THEN TopLevelCatch(TypeErrorOfNullish(error), <<"step">>)
    ELSE /\ caughtBy' = Append(caughtBy, "step")
         /\ LET warns == Append(warnings, messageOr(error, fallback))
            IN  Finish(createPartialResult(input, normalizedDrug, None, None, selectedNDCs,
                                           alternativeNDCs, warns, errors),
                       errors, warns)

\* The catch block of steps 2 and 3.  For null/undefined the read of .message
\* throws a TypeError, which the catch-all handler receives.
FatalCatch(error, fallback) ==
    IF isNullish(error) THEN TopLevelCatch(TypeErrorOfNullish(error), <<"step">>)
    ELSE /\ caughtBy' = Append(caughtBy, "step")
         /\ LET errs == Append(errors, messageOr(error, fallback))
            IN  Finish(createErrorResult(input, errs, warnings, normalizedDrug, None, None),
                       errs, warnings)

\* The catch block of steps 4, 5 and 7: a warning, and the pipeline goes on at next
RecoverableCatch(error, fallback, next) ==
    IF isNullish(error) THEN TopLevelCatch(TypeErrorOfNullish(error), <<"step">>)
    ELSE /\ caughtBy' = Append(caughtBy, "step")
         /\ warnings' = Append(warnings, messageOr(error, fallback))
         /\ pc' = next
         /\ UNCHANGED <<errors, result, escaped>>

\* The catch block of step 6: an error, and the partial result is returned
QuantityCatch(error, fallback) ==
    IF isNullish(error) THEN TopLevelCatch(TypeErrorOfNullish(error), <<"step">>)
    ELSE /\ caughtBy' = Append(caughtBy, "step")
         /\ LET errs == Append(errors, messageOr(error, fallback))
            IN  Finish(createPartialResult(input, normalizedDrug, parsedSIG, calculation,
                                           selectedNDCs, alternativeNDCs, warnings, errs),
                       errs, warnings)

\* Step 1: validate input.  The two validators are called inside the outer try
\* and outside every step-level try: what one of them throws (the function
\* replaced by one that throws) goes straight to the catch-all handler.
ValidateInput ==
    /\ pc = "validateInput"
    /\ LET drugValidation == validateDrugInput(input.drugNameOrNDC)
           daysSupplyValidation == validateDaysSupply(input.daysSupply)
       IN  \/ IF ~drugValidation.valid
              THEN /\ calls' = calls \o <<"validateDrugInput">>
                   /\ failed' = Append(failed, Failure("validateDrugInput", None))
                   /\ Finish(createErrorResult(input, errors \o drugValidation.errors,
                                               warnings, None, None, None),
                             errors \o drugValidation.errors, warnings)
                   /\ UNCHANGED <<cleaned, caughtBy>>
              ELSE IF ~daysSupplyValidation.valid
              THEN /\ calls' = calls \o <<"validateDrugInput", "validateDaysSupply">>
                   /\ failed' = Append(failed, Failure("validateDaysSupply", None))
                   /\ Finish(createErrorResult(input, errors \o daysSupplyValidation.errors,
                                               warnings, None, None, None),
                             errors \o daysSupplyValidation.errors, warnings)
                   /\ UNCHANGED <<cleaned, caughtBy>>
              ELSE /\ calls' = calls \o <<"validateDrugInput", "validateDaysSupply">>
                   /\ cleaned' = drugValidation.cleaned
                   /\ pc' = "normalizeDrug"
                   /\ UNCHANGED <<result, errors, warnings, escaped, failed, caughtBy>>
           \/ \E f \in StepFaults :
                 /\ calls' = calls \o <<"validateDrugInput">>
                 /\ failed' = Append(failed, Failure("validateDrugInput", Some(f.error)))
                 /\ TopLevelCatch(f.error, <<>>)
                 /\ UNCHANGED cleaned
           \/ \E f \in StepFaults :
                 /\ drugValidation.valid
                 /\ calls' = calls \o <<"validateDrugInput", "validateDaysSupply">>
                 /\ failed' = Append(failed, Failure("validateDaysSupply", Some(f.error)))
                 /\ TopLevelCatch(f.error, <<>>)
                 /\ UNCHANGED cleaned
    /\ UNCHANGED <<input, normalizedDrug, parsedSIG, calculation, ndcCodes, packages,
                   selectedNDCs, alternativeNDCs>>

\* what `await normalizeDrug(cleaned)` may do: normalizeDrug over each behaviour of
\* the resolver, or the function replaced by one that throws
normalizeDrugOutcomes(in) ==
    {normalizeDrug(in, r) : r \in {Return(RxCUI)} \cup StepFaults}
    \cup {[resolver |-> None, argument |-> None, outcome |-> f] : f \in StepFaults}

\* Step 2: normalize drug -> RxCUI
ResolveIdentity ==
    /\ pc = "normalizeDrug"
    /\ \E n \in normalizeDrugOutcomes(cleaned) :
          /\ calls' = calls \o <<"normalizeDrug">> \o n.resolver
          /\ IF n.outcome.ok
             THEN /\ normalizedDrug' = Some(n.outcome.value)
                  /\ pc' = "parseSIG"
                  /\ UNCHANGED <<result, errors, warnings, escaped, failed, caughtBy>>
             ELSE /\ FatalCatch(n.outcome.error, E_NormalizeFallback)
                  /\ failed' = Append(failed, Failure("normalizeDrug", Some(n.outcome.error)))
                  /\ UNCHANGED normalizedDrug
    /\ UNCHANGED <<input, cleaned, parsedSIG, calculation, ndcCodes, packages,
                   selectedNDCs, alternativeNDCs>>

\* Step 3: parse SIG
InterpretDosing ==
    /\ pc = "parseSIG"
    /\ calls' = calls \o <<"parseSIG">>
    /\ \E o \in {Return(sg) : sg \in ParsedSIGs} \cup StepFaults :
          IF o.ok
          THEN /\ parsedSIG' = Some(o.value)
               /\ warnings' = IF o.value.isAmbiguous
                              THEN Append(warnings,
                                          IF IsSome(o.value.clarificationNeeded)
                                          THEN Get(o.value.clarificationNeeded)
                                          ELSE W_Ambiguous)
                              ELSE warnings
               /\ pc' = "getRxCUINDCs"
               /\ UNCHANGED <<result, errors, escaped, failed, caughtBy>>
          ELSE /\ FatalCatch(o.error, E_ParseFallback)
               /\ failed' = Append(failed, Failure("parseSIG", Some(o.error)))
               /\ UNCHANGED parsedSIG
    /\ UNCHANGED <<input, cleaned, normalizedDrug, calculation, ndcCodes, packages,
                   selectedNDCs, alternativeNDCs>>

\* the NDC lists getRxCUINDCs may return
codeLists == SeqsUpTo({p.ndc : p \in PipeCatalog}, MaxCodes)

\* Step 4: get NDCs from RxNorm
FetchCatalogCodes ==
    /\ pc = "getRxCUINDCs"
    /\ calls' = calls \o <<"getRxCUINDCs">>
    /\ \E o \in {Return(c) : c \in codeLists} \cup StepFaults :
          IF o.ok
          THEN /\ ndcCodes' = o.value
               /\ UNCHANGED <<failed, caughtBy>>
               /\ IF Len(o.value) = 0
                  THEN Finish(createPartialResult(input, normalizedDrug, parsedSIG,
                                                  calculation, selectedNDCs,
                                                  alternativeNDCs,
                                                  Append(warnings, W_NoNDCs), errors),
                              errors, Append(warnings, W_NoNDCs))
                  ELSE /\ pc' = "getMultipleNDCPackages"
                       /\ UNCHANGED <<result, errors, warnings, escaped>>
          ELSE /\ RecoverableCatch(o.error, W_NDCsFallback, "getMultipleNDCPackages")
               /\ failed' = Append(failed, Failure("getRxCUINDCs", Some(o.error)))
               /\ UNCHANGED ndcCodes
    /\ UNCHANGED <<input, cleaned, normalizedDrug, parsedSIG, calculation, packages,
                   selectedNDCs, alternativeNDCs>>

\* what getMultipleNDCPackages(codes) may return: the records of the codes whose
\* lookup succeeded, in the order of the codes
packageLists(codes) ==
    {LET found == SelectSeq([i \in 1..Len(codes) |-> <<i, codes[i]>>],
                            LAMBDA e : e[1] \in ok)
     IN  [i \in 1..Len(found) |-> packageOf(found[i][2])] :
        ok \in SUBSET (1..Len(codes))}

\* Step 5: get package info from FDA
FetchPackageRecords ==
    /\ pc = "getMultipleNDCPackages"
    /\ IF Len(ndcCodes) > 0
       THEN \E o \in {Return(l) : l \in packageLists(ndcCodes)} \cup StepFaults :
               IF o.ok
               THEN /\ packages' = o.value
                    /\ IF Len(o.value) = 0
                       THEN /\ warnings' = Append(warnings, W_NoPackageInfo)
                            /\ calls' = calls \o <<"getMultipleNDCPackages">>
                       ELSE /\ warnings' = warnings \o checkForInactiveNDCs(o.value)
                            /\ calls' = calls \o <<"getMultipleNDCPackages",
                                                   "checkForInactiveNDCs">>
                    /\ pc' = "calculateQuantity"
                    /\ UNCHANGED <<result, errors, escaped, failed, caughtBy>>
               ELSE /\ calls' = calls \o <<"getMultipleNDCPackages">>
                    /\ RecoverableCatch(o.error, W_PackagesFallback, "calculateQuantity")
                    /\ failed' = Append(failed, Failure("getMultipleNDCPackages", Some(o.error)))
                    /\ UNCHANGED packages
       ELSE /\ pc' = "calculateQuantity"
            /\ UNCHANGED <<calls, packages, result, errors, warnings, escaped, failed,
                           caughtBy>>
    /\ UNCHANGED <<input, cleaned, normalizedDrug, parsedSIG, calculation, ndcCodes,
                   selectedNDCs, alternativeNDCs>>

\* Step 6: calculate quantity
ComputeQuantity ==
    /\ pc = "calculateQuantity"
    /\ IF IsSome(parsedSIG)
       THEN \E o \in {calculateQuantity(parsedSIG, input.daysSupply.twice \div 2)}
                     \cup StepFaults :
               IF o.ok
               THEN /\ calculation' = Some(o.value)
                    /\ calls' = calls \o <<"calculateQuantity", "isQuantityReasonable">>
                    /\ warnings' = warnings \o isQuantityReasonable(o.value).warnings
                    /\ pc' = "selectOptimalNDCs"
                    /\ UNCHANGED <<result, errors, escaped, failed, caughtBy>>
               ELSE /\ calls' = calls \o <<"calculateQuantity">>
                    /\ UNCHANGED calculation
                    /\ failed' = Append(failed, Failure("calculateQuantity", Some(o.error)))
                    /\ QuantityCatch(o.error, E_QuantityFallback)
       ELSE /\ pc' = "selectOptimalNDCs"
            /\ UNCHANGED <<calls, calculation, result, errors, warnings, escaped, failed,
                           caughtBy>>
    /\ UNCHANGED <<input, cleaned, normalizedDrug, parsedSIG, ndcCodes, packages,
                   selectedNDCs, alternativeNDCs>>

\* the options calculatePrescription passes
pipelineOptions ==
    [maxOverfillPercent |-> Some(DefaultMaxOverfill), maxAlternatives |-> Some(DefaultMaxAlternatives)]

\* Step 7: select optimal NDCs
SelectPackages ==
    /\ pc = "selectOptimalNDCs"
    /\ IF IsSome(calculation) /\ Len(packages) > 0
       THEN /\ calls' = calls \o <<"selectOptimalNDCs">>
            /\ \E o \in {Return(selectOptimalNDCs(packages, Get(calculation), pipelineOptions))}
                        \cup StepFaults :
                  IF o.ok
                  THEN /\ selectedNDCs' = o.value.primary
                       /\ alternativeNDCs' = Some(o.value.alternatives)
                       /\ warnings' = warnings \o o.value.warnings
                       /\ pc' = "return"
                       /\ UNCHANGED <<result, errors, escaped, failed, caughtBy>>
                  ELSE /\ RecoverableCatch(o.error, W_SelectFallback, "return")
                       /\ failed' = Append(failed, Failure("selectOptimalNDCs", Some(o.error)))
                       /\ UNCHANGED <<selectedNDCs, alternativeNDCs>>
       ELSE /\ warnings' = IF IsSome(calculation) /\ Len(packages) = 0
                           THEN Append(warnings, W_CannotSelect) ELSE warnings
            /\ pc' = "return"
            /\ UNCHANGED <<calls, selectedNDCs, alternativeNDCs, result, errors, escaped,
                           failed, caughtBy>>
    /\ UNCHANGED <<input, cleaned, normalizedDrug, parsedSIG, calculation, ndcCodes,
                   packages>>

\* Determine success status and return
AssembleResult ==
    /\ pc = "return"
    /\ Finish(finalResult(input, normalizedDrug, parsedSIG, calculation, selectedNDCs,
                          alternativeNDCs, warnings, errors),
              errors, warnings)
    /\ UNCHANGED <<input, cleaned, normalizedDrug, parsedSIG, calculation, ndcCodes,
                   packages, selectedNDCs, alternativeNDCs, calls, failed, caughtBy>>

PipeInit ==
    /\ pc = "validateInput"
    /\ input \in CalculationInputs
    /\ cleaned = <<>>
    /\ normalizedDrug = None
    /\ parsedSIG = None
    /\ calculation = None
    /\ ndcCodes = <<>>
    /\ packages = <<>>
    /\ selectedNDCs = <<>>
    /\ alternativeNDCs = None
    /\ warnings = <<>>
    /\ errors = <<>>
    /\ calls = <<>>
    /\ result = None
    /\ escaped = FALSE
    /\ failed = <<>>
    /\ caughtBy = <<>>

\* the variables of a specification that does not use them
SelIdle == selIn = None /\ selOut = None /\ selAgain = None
QtyIdle ==
    /\ qtyIn = None /\ qtyOut = None /\ daysIn = None /\ daysOut = None
    /\ taperIn = None /\ taperOut = None /\ prnIn = None /\ prnOut = None
UnitIdle == unitIn = None /\ unitOut = None
PostIdle == postPc = "idle" /\ postBody = None /\ postResult = None /\ postResponse = None
DrugIdle == drugIn = None /\ drugOut = None
AssessIdle == assessIn = None /\ assessOut = None
RelIdle == relIn = None /\ relOut = None
CacheIdle == cacheStore = None /\ cacheNow = None /\ cacheOp = None /\ cacheLastSet = None
RxIdle == rxCache = None /\ rxNow = None /\ rxLookups = None
BatchIdle == batchIn = None /\ batchPc = None /\ batchIndex = None /\ batchLookups = None /\ batchPackages = None /\ batchDelays = None /\ batchOut = None
PipeIdle ==
    /\ pc = "idle" /\ input = None /\ cleaned = <<>> /\ normalizedDrug = None
    /\ parsedSIG = None /\ calculation = None /\ ndcCodes = <<>> /\ packages = <<>>
    /\ selectedNDCs = <<>> /\ alternativeNDCs = None /\ warnings = <<>> /\ errors = <<>>
    /\ calls = <<>> /\ result = None /\ escaped = FALSE /\ failed = <<>>
    /\ caughtBy = <<>>

Init == PipeInit /\ SelIdle /\ QtyIdle /\ UnitIdle /\ PostIdle /\ DrugIdle /\ AssessIdle /\ RelIdle /\ CacheIdle /\ RxIdle /\ BatchIdle

Next ==
    \/ ValidateInput /\ UNCHANGED <<selVars, qtyVars, unitVars, postVars, drugVars, assessVars, relVars, cacheVars, rxVars, batchVars>>
    \/ ResolveIdentity /\ UNCHANGED <<selVars, qtyVars, unitVars, postVars, drugVars, assessVars, relVars, cacheVars, rxVars, batchVars>>
    \/ InterpretDosing /\ UNCHANGED <<selVars, qtyVars, unitVars, postVars, drugVars, assessVars, relVars, cacheVars, rxVars, batchVars>>
    \/ FetchCatalogCodes /\ UNCHANGED <<selVars, qtyVars, unitVars, postVars, drugVars, assessVars, relVars, cacheVars, rxVars, batchVars>>
    \/ FetchPackageRecords /\ UNCHANGED <<selVars, qtyVars, unitVars, postVars, drugVars, assessVars, relVars, cacheVars, rxVars, batchVars>>
    \/ ComputeQuantity /\ UNCHANGED <<selVars, qtyVars, unitVars, postVars, drugVars, assessVars, relVars, cacheVars, rxVars, batchVars>>
    \/ SelectPackages /\ UNCHANGED <<selVars, qtyVars, unitVars, postVars, drugVars, assessVars, relVars, cacheVars, rxVars, batchVars>>
    \/ AssembleResult /\ UNCHANGED <<selVars, qtyVars, unitVars, postVars, drugVars, assessVars, relVars, cacheVars, rxVars, batchVars>>

Spec == Init /\ [][Next]_vars

----------------------------------------------------------------------------
(* selectOptimalNDCs applied to drawn arguments *)

P_tab1 == Package("00001-0001-01", 1, U_tablet, TRUE)
P_tab30b == Package("00003-0030-01", 30, U_Tablet_padded, TRUE)
P_tab90 == Package("00001-0090-01", 90, U_tablets, TRUE)
P_tab300 == Package("00001-0300-01", 300, U_tablet, TRUE)
P_tab20001 == Package("00001-2001-01", 20001, U_tablet, TRUE)
P_tab20002 == Package("00001-2002-01", 20002, U_tablet, TRUE)
P_ml200 == Package("00002-0200-01", 200, U_ml, TRUE)
P_doseis30 == Package("00004-0030-01", 30, U_DOSEIS, TRUE)
SelCatalog == {P_tab1, P_tab30b, P_tab60, P_tab90, P_tab300, P_tab20001, P_tab20002,
              P_tab30old, P_ml200}

Quantity(total, unit) ==
    [totalQuantityNeeded |-> total, unit |-> unit, daysSupply |-> 30, dailyDose |-> total]

SelCalculations ==
    {Quantity(n, U_tablet) : n \in {0, 2, 30, 45, 120, 20001}} \cup {Quantity(150, U_ml)}

SelOptions ==
    {[maxOverfillPercent |-> None, maxAlternatives |-> None],
     [maxOverfillPercent |-> Some(50), maxAlternatives |-> Some(1)]}

\* longer lists over fewer packages, for more candidates than maxAlternatives + 1
LongCatalog == {P_tab60, P_tab90, P_tab300}
SelLists == SeqsUpTo(SelCatalog, MaxPackages) \cup SeqsUpTo(LongCatalog, MaxPackages + 2)

\* lists with a package whose unit is written in Greek capitals, for a quantity
\* in that unit in small letters and for one in tablets
GreekCatalog == {P_doseis30, P_tab30b, P_tab30old}
GreekLists == SeqsUpTo(GreekCatalog, MaxPackages)
GreekCalculations == {Quantity(30, U_doseis), Quantity(30, U_tablet)}

SelArguments ==
    (SelLists \X SelCalculations) \cup (GreekLists \X GreekCalculations)

SelInit ==
    /\ \E a \in SelArguments, o \in SelOptions :
          selIn = Some([packages |-> a[1], calculation |-> a[2], options |-> o])
    /\ selOut = None
    /\ selAgain = None

Select ==
    /\ selOut = None
    /\ selOut' = Some(selectOptimalNDCs(Get(selIn).packages, Get(selIn).calculation,
                                        Get(selIn).options))
    /\ selIn' = Some([Get(selIn) EXCEPT
                         !.packages = packagesAfterSelect(@, Get(selIn).calculation)])
    /\ UNCHANGED selAgain

\* a second call, with the array the first call was given, as that call left it
SelectAgain ==
    /\ selOut # None
    /\ selAgain = None
    /\ selAgain' = Some(selectOptimalNDCs(Get(selIn).packages, Get(selIn).calculation,
                                          Get(selIn).options))
    /\ selIn' = Some([Get(selIn) EXCEPT
                         !.packages = packagesAfterSelect(@, Get(selIn).calculation)])
    /\ UNCHANGED selOut

InitSel == SelInit /\ PipeIdle /\ QtyIdle /\ UnitIdle /\ PostIdle /\ DrugIdle /\ AssessIdle /\ RelIdle /\ CacheIdle /\ RxIdle /\ BatchIdle
NextSel == Select /\ UNCHANGED <<pipeVars, qtyVars, unitVars, postVars, drugVars, assessVars, relVars, cacheVars, rxVars, batchVars>>
SpecSel == InitSel /\ [][NextSel]_vars

\* selectOptimalNDCs called twice on the same arguments
NextSelTwice == (Select \/ SelectAgain) /\ UNCHANGED <<pipeVars, qtyVars, unitVars, postVars, drugVars, assessVars, relVars, cacheVars, rxVars, batchVars>>
SpecSelTwice == InitSel /\ [][NextSelTwice]_vars

----------------------------------------------------------------------------
(* calculateQuantity applied to drawn arguments *)

QtySigs ==
    {None} \cup
    {Some(Sig(d, u, f, a, None)) :
        d \in (-1)..(MaxDose + 1), u \in {U_tablet, U_ml}, f \in (-1)..(MaxFrequency + 1),
        a \in BOOLEAN}

QtyInit ==
    /\ qtyIn \in {Some([sig |-> sg, daysSupply |-> n]) :
                    sg \in QtySigs, n \in (-1)..(MaxDaysSupply + 1)}
    /\ qtyOut = None
    /\ daysIn = None /\ daysOut = None
    /\ taperIn = None /\ taperOut = None
    /\ prnIn = None /\ prnOut = None

Calculate ==
    /\ IsSome(qtyIn)
    /\ qtyOut = None
    /\ qtyOut' = Some(calculateQuantity(Get(qtyIn).sig, Get(qtyIn).daysSupply))
    /\ UNCHANGED <<qtyIn, daysIn, daysOut, taperIn, taperOut, prnIn, prnOut>>

\* the days-supply values validateDaysSupply is applied to
DaysValues ==
    {Days(n) : n \in (-1)..(MaxDaysSupply + 1)}
    \cup {HalfDays(t) : t \in {-1, 1, 61, 2 * MaxDaysSupply - 1, 2 * MaxDaysSupply + 1}}
    \cup {NaN, NotANumber}

DaysInit ==
    /\ daysIn \in {Some(d) : d \in DaysValues}
    /\ daysOut = None
    /\ qtyIn = None /\ qtyOut = None
    /\ taperIn = None /\ taperOut = None
    /\ prnIn = None /\ prnOut = None

ValidateDays ==
    /\ IsSome(daysIn)
    /\ daysOut = None
    /\ daysOut' = Some(validateDaysSupply(Get(daysIn)))
    /\ UNCHANGED <<daysIn, qtyIn, qtyOut, taperIn, taperOut, prnIn, prnOut>>

\* taper schedules: up to MaxTaperSteps steps
MaxTaperSteps == 3
TaperStep(tablets, days) == [tablets |-> tablets, days |-> days]
TaperSteps ==
    {TaperStep(4, 3), TaperStep(2, 5), TaperStep(1, 1), TaperStep(0, 2),
     TaperStep(-1, 2), TaperStep(1, 0), TaperStep(1, -1)}

TaperInit ==
    /\ \E t \in SeqsUpTo(TaperSteps, MaxTaperSteps) : taperIn = Some(t)
    /\ taperOut = None
    /\ qtyIn = None /\ qtyOut = None
    /\ daysIn = None /\ daysOut = None
    /\ prnIn = None /\ prnOut = None

CalculateTaper ==
    /\ IsSome(taperIn)
    /\ taperOut = None
    /\ taperOut' = Some(calculateTaperQuantity(Get(taperIn)))
    /\ UNCHANGED <<taperIn, qtyIn, qtyOut, daysIn, daysOut, prnIn, prnOut>>

\* arguments of estimatePRNQuantity: a dosing, an accepted days supply, and the
\* optional maximum daily use
PrnInit ==
    /\ \E sg \in QtySigs \ {None}, n \in {1, 30, MaxDaysSupply}, m \in {None, Some(0), Some(6)} :
          prnIn = Some([sig |-> Get(sg), daysSupply |-> n, maxDailyUse |-> m])
    /\ prnOut = None
    /\ qtyIn = None /\ qtyOut = None
    /\ daysIn = None /\ daysOut = None
    /\ taperIn = None /\ taperOut = None

EstimatePRN ==
    /\ IsSome(prnIn)
    /\ prnOut = None
    /\ prnOut' = Some(estimatePRNQuantity(Get(prnIn).sig, Get(prnIn).daysSupply,
                                          Get(prnIn).maxDailyUse))
    /\ UNCHANGED <<prnIn, qtyIn, qtyOut, daysIn, daysOut, taperIn, taperOut>>

InitQty ==
    /\ QtyInit \/ DaysInit \/ TaperInit \/ PrnInit
    /\ PipeIdle /\ SelIdle /\ UnitIdle /\ PostIdle /\ DrugIdle /\ AssessIdle /\ RelIdle /\ CacheIdle /\ RxIdle /\ BatchIdle
NextQty ==
    /\ Calculate \/ ValidateDays \/ CalculateTaper \/ EstimatePRN
    /\ UNCHANGED <<pipeVars, selVars, unitVars, postVars, drugVars, assessVars, relVars, cacheVars, rxVars, batchVars>>
SpecQty == InitQty /\ [][NextQty]_vars

----------------------------------------------------------------------------
(* Properties of calculateQuantity, checked under SpecQty *)

QtyCase ==
    /\ IsSome(qtyOut)
    /\ IsSome(Get(qtyIn).sig)
    /\ Get(qtyIn).daysSupply \in 1..MaxDaysSupply

\* C6: for every dosing and every daysSupply in 1..365 calculateQuantity returns
\* totalNeeded = 0 and dailyDose = 0 when frequency = 0 or isAmbiguous, otherwise
\* dailyDose = dose * frequency and totalNeeded = dose * frequency * daysSupply;
\* unit = doseUnit and daysSupply is echoed.
C6_QuantityMatchesReference ==
    QtyCase =>
        LET sg == Get(Get(qtyIn).sig)
            days == Get(qtyIn).daysSupply
            out == Get(qtyOut)
        IN  /\ out.ok
            /\ IF sg.frequency = 0 \/ sg.isAmbiguous
               THEN out.value.totalQuantityNeeded = 0 /\ out.value.dailyDose = 0
               ELSE /\ out.value.dailyDose = sg.dose * sg.frequency
                    /\ out.value.totalQuantityNeeded = sg.dose * sg.frequency * days
            /\ out.value.unit = sg.doseUnit
            /\ out.value.daysSupply = days

\* an ambiguous dosing with a positive dose and frequency, for 365 days, gave 0
C6_Witness ==
    /\ QtyCase
    /\ Get(Get(qtyIn).sig).isAmbiguous
    /\ Get(Get(qtyIn).sig).dose = 2
    /\ Get(Get(qtyIn).sig).frequency = 3
    /\ Get(qtyIn).daysSupply = MaxDaysSupply
    /\ Get(qtyOut).ok
    /\ Get(qtyOut).value.totalQuantityNeeded = 0

----------------------------------------------------------------------------
(* POST /api/calculate: routes/api/calculate/+server.ts *)

\* what the RxNorm lookup behind the resolver finds
RxNormLookups == {"match", "noMatch", "httpError"}

\* messages thrown inside drugNameToRxCUI / ndcToRxCUI
E_NoRxCUIName == Msg("No RxCUI found for drug name: {drugName}")
E_NoRxCUINDC == Msg("No RxCUI found for NDC: {ndc}")
E_RxNormHttp == Msg("RxNorm API error: {status} {statusText}")

\* drugNameToRxCUI / ndcToRxCUI: the Error thrown inside the try block is caught
\* and rethrown as a plain APIError object carrying its message
resolverOutcome(resolver, lookup) ==
    IF lookup = "match" THEN Return(RxCUI)
    ELSE LET thrownInside ==
                 Thrown("Error", Some(IF lookup = "httpError" THEN E_RxNormHttp
                                      ELSE IF resolver = "ndcToRxCUI" THEN E_NoRxCUINDC
                                      ELSE E_NoRxCUIName))
         IN  Throw(Thrown("object", Some(messageOfError(thrownInside))))

\* the resolver normalizeDrug calls for an input
resolverFor(in) == IF isNDCFormat(trim(in)) THEN "ndcToRxCUI" ELSE "drugNameToRxCUI"

\* results of calculatePrescription once the identity is resolved: dosing
\* interpretation failed, or no NDC codes were found
laterResults(in) ==
    {createErrorResult(in, <<E_ParseFallback>>, <<>>, Some(RxCUI), None, None),
     createPartialResult(in, Some(RxCUI), Some(Sig(1, U_tablet, 1, FALSE, None)), None,
                         <<>>, None, <<W_NoNDCs>>, <<>>)}

\* calculatePrescription(input) up to the identity step, for a given RxNorm lookup
calculateResults(in, lookup) ==
    LET drugValidation == validateDrugInput(in.drugNameOrNDC)
        daysSupplyValidation == validateDaysSupply(in.daysSupply)
        n == normalizeDrug(drugValidation.cleaned,
                           resolverOutcome(resolverFor(drugValidation.cleaned), lookup))
    IN  IF ~drugValidation.valid
        THEN {createErrorResult(in, drugValidation.errors, <<>>, None, None, None)}
        ELSE IF ~daysSupplyValidation.valid
        THEN {createErrorResult(in, daysSupplyValidation.errors, <<>>, None, None, None)}
        ELSE IF ~n.outcome.ok
        THEN {createErrorResult(in, <<messageOr(n.outcome.error, E_NormalizeFallback)>>,
                                <<>>, None, None, None)}
        ELSE laterResults(in)

\* messages of a replaced calculator
E_DrugNotFound == Msg("Drug not found: InvalidDrug123")
E_NotFoundThrown == Msg("Drug not found in database")
E_UnexpectedThrown == Msg("Unexpected error")

\* the characters of each error text the handler may inspect
TextChars ==
    {<<E_DrugRequired[1],
       <<"D","r","u","g"," ","n","a","m","e"," ","o","r"," ","N","D","C"," ","i","s"," ","r",
         "e","q","u","i","r","e","d">>>>,
     <<E_DrugTooShort[1],
       <<"D","r","u","g"," ","n","a","m","e"," ","o","r"," ","N","D","C"," ","m","u","s","t",
         " ","b","e"," ","a","t"," ","l","e","a","s","t"," ","2"," ","c","h","a","r","a","c",
         "t","e","r","s">>>>,
     <<E_DrugTooLong[1],
       <<"D","r","u","g"," ","n","a","m","e"," ","o","r"," ","N","D","C"," ","i","s"," ","t",
         "o","o"," ","l","o","n","g"," ","(","m","a","x"," ","2","0","0"," ","c","h","a","r",
         "a","c","t","e","r","s",")">>>>,
     <<E_InvalidNDC[1],
       <<"I","n","v","a","l","i","d"," ","N","D","C"," ","f","o","r","m","a","t"," ","(","m",
         "u","s","t"," ","b","e"," ","1","0"," ","o","r"," ","1","1"," ","d","i","g","i","t",
         "s",")">>>>,
     <<E_NormalizeFailed(E_Unknown)[1],
       <<"F","a","i","l","e","d"," ","t","o"," ","n","o","r","m","a","l","i","z","e"," ","d",
         "r","u","g",":"," ","U","n","k","n","o","w","n"," ","e","r","r","o","r">>>>,
     <<E_NormalizeFallback[1],
       <<"F","a","i","l","e","d"," ","t","o"," ","n","o","r","m","a","l","i","z","e"," ","d",
         "r","u","g"," ","n","a","m","e"," ","o","r"," ","N","D","C">>>>,
     <<E_ParseFallback[1],
       <<"F","a","i","l","e","d"," ","t","o"," ","p","a","r","s","e"," ","p","r","e","s","c",
         "r","i","p","t","i","o","n"," ","i","n","s","t","r","u","c","t","i","o","n","s">>>>,
     <<E_Unexpected[1],
       <<"A","n"," ","u","n","e","x","p","e","c","t","e","d"," ","e","r","r","o","r"," ","o",
         "c","c","u","r","r","e","d"," ","d","u","r","i","n","g"," ","c","a","l","c","u","l",
         "a","t","i","o","n">>>>,
     <<E_DrugNotFound[1],
       <<"D","r","u","g"," ","n","o","t"," ","f","o","u","n","d",":"," ","I","n","v","a","l",
         "i","d","D","r","u","g","1","2","3">>>>,
     <<E_NotFoundThrown[1],
       <<"D","r","u","g"," ","n","o","t"," ","f","o","u","n","d"," ","i","n"," ","d","a","t",
         "a","b","a","s","e">>>>,
     <<E_UnexpectedThrown[1],
       <<"U","n","e","x","p","e","c","t","e","d"," ","e","r","r","o","r">>>>}
charsOf(text) == (CHOOSE e \in TextChars : e[1] = text)[2]

T_NotFound == <<"n","o","t"," ","f","o","u","n","d">>

\* String.prototype.includes
includes(s, sub) ==
    \E i \in 0..(Len(s) - Len(sub)) : SubSeq(s, i + 1, i + Len(sub)) = sub

\* e.toLowerCase().includes('not found')
mentionsNotFound(message) == includes(toLowerCase(charsOf(message[1])), T_NotFound)

\* the zod schema CalculationRequestSchema
MinSigLen == 5
MaxSigLen == 500
schemaAccepts(body) ==
    /\ Len(body.drugNameOrNDC) >= MinDrugLen
    /\ Len(body.drugNameOrNDC) <= MaxDrugLen
    /\ Len(body.sig) >= MinSigLen
    /\ Len(body.sig) <= MaxSigLen
    /\ body.daysSupply.type = "number"
    /\ body.daysSupply.twice % 2 = 0
    /\ body.daysSupply.twice >= 2
    /\ body.daysSupply.twice <= 2 * MaxDaysSupply

Response(status, success, code, message, data) ==
    [status |-> status, success |-> success, code |-> code, message |-> message,
     data |-> data]

\* the response to the outcome of calculatePrescription
respond(outcome) ==
    IF outcome.ok
    THEN LET calcResult == outcome.value
         IN  IF /\ IsSome(calcResult.errors)
                /\ \E i \in 1..Len(Get(calcResult.errors)) :
                      mentionsNotFound(Get(calcResult.errors)[i])
             THEN Response(404, FALSE, Some("NOT_FOUND"),
                           Some(IF Len(Get(calcResult.errors)) > 0 THEN Get(calcResult.errors)[1]
                                ELSE Msg("Drug not found")),
                           None)
             ELSE Response(200, TRUE, None, None, Some(calcResult))
    ELSE LET errorMessage == IF outcome.error.kind = "Error"
                             THEN Get(outcome.error.message)
                             ELSE E_Unexpected
         IN  IF mentionsNotFound(errorMessage)
             THEN Response(404, FALSE, Some("NOT_FOUND"), Some(errorMessage), None)
             ELSE Response(500, FALSE, Some("INTERNAL_SERVER_ERROR"), Some(errorMessage), None)

\* request bodies
S_xy == <<"x","y">>
SIG_short == <<"T","a","k","e">>
SIG_daily == <<"T","a","k","e"," ","1"," ","t","a","b","l","e","t"," ","d","a","i","l","y">>
PostBodies ==
    {[drugNameOrNDC |-> d, sig |-> sg, daysSupply |-> n] :
        d \in {S_a, S_xy, S_aspirin, S_ndc, S_123},
        sg \in {SIG_short, SIG_daily},
        n \in {Days(0), Days(30), Days(MaxDaysSupply), HalfDays(61)}}

\* the calculator the handler calls: the real one, or a replacement that resolves
\* or rejects with a fixed value
Calculators ==
    {"calculatePrescription", "resolvesNotFound", "rejectsNotFound", "rejectsError",
     "rejectsString"}

PostInit ==
    /\ postPc = "validate"
    /\ \E b \in PostBodies, c \in Calculators : postBody = Some([body |-> b, calculator |-> c])
    /\ postResult = None
    /\ postResponse = None

\* CalculationRequestSchema.safeParse(body)
PostValidate ==
    /\ postPc = "validate"
    /\ IF schemaAccepts(Get(postBody).body)
       THEN postPc' = "calculate" /\ UNCHANGED postResponse
       ELSE /\ postPc' = "responded"
            /\ postResponse' = Some(Response(400, FALSE, Some("VALIDATION_ERROR"),
                                             Some(Msg("Validation failed")), None))
    /\ UNCHANGED <<postBody, postResult>>

\* await calculatePrescription(input)
PostCalculate ==
    /\ postPc = "calculate"
    /\ LET in == Get(postBody).body
           calculator == Get(postBody).calculator
       IN  \/ /\ calculator = "calculatePrescription"
              /\ \E l \in RxNormLookups : \E r \in calculateResults(in, l) :
                    postResult' = Some([lookup |-> l, outcome |-> Return(r)])
           \/ /\ calculator = "resolvesNotFound"
              /\ postResult' =
                    Some([lookup |-> "none",
                          outcome |-> Return(createErrorResult(in, <<E_DrugNotFound>>, <<>>,
                                                               None, None, None))])
           \/ /\ calculator = "rejectsNotFound"
              /\ postResult' = Some([lookup |-> "none",
                                     outcome |-> Throw(Thrown("Error", Some(E_NotFoundThrown)))])
           \/ /\ calculator = "rejectsError"
              /\ postResult' = Some([lookup |-> "none",
                                     outcome |-> Throw(Thrown("Error", Some(E_UnexpectedThrown)))])
           \/ /\ calculator = "rejectsString"
              /\ postResult' = Some([lookup |-> "none",
                                     outcome |-> Throw(Thrown("string", None))])
    /\ postPc' = "respond"
    /\ UNCHANGED <<postBody, postResponse>>

\* the return statements after the call
PostRespond ==
    /\ postPc = "respond"
    /\ postResponse' = Some(respond(Get(postResult).outcome))
    /\ postPc' = "responded"
    /\ UNCHANGED <<postBody, postResult>>

InitPost == PostInit /\ PipeIdle /\ SelIdle /\ QtyIdle /\ UnitIdle /\ DrugIdle /\ AssessIdle /\ RelIdle /\ CacheIdle /\ RxIdle /\ BatchIdle
NextPost ==
    \/ PostValidate /\ UNCHANGED <<pipeVars, selVars, qtyVars, unitVars, drugVars, assessVars, relVars, cacheVars, rxVars, batchVars>>
    \/ PostCalculate /\ UNCHANGED <<pipeVars, selVars, qtyVars, unitVars, drugVars, assessVars, relVars, cacheVars, rxVars, batchVars>>
    \/ PostRespond /\ UNCHANGED <<pipeVars, selVars, qtyVars, unitVars, drugVars, assessVars, relVars, cacheVars, rxVars, batchVars>>
SpecPost == InitPost /\ [][NextPost]_vars

\* C20 (as claimed): when the resolver finds no match for the submitted drug name
\* or NDC, so that calculatePrescription returns the identity-resolution error,
\* the handler responds with status 404 and code NOT_FOUND.
C20_NoMatchIs404 ==
    (/\ postPc = "responded"
     /\ IsSome(postResult)
     /\ Get(postBody).calculator = "calculatePrescription"
     /\ Get(postResult).lookup = "noMatch"
     /\ validateDrugInput(Get(postBody).body.drugNameOrNDC).valid) =>
        /\ Get(postResponse).status = 404
        /\ Get(postResponse).code = Some("NOT_FOUND")

----------------------------------------------------------------------------
(* Properties of quantity-calculator.ts, checked under SpecQty *)

\* C17: validateDaysSupply accepts exactly the integers 1..365 and rejects every
\* other value with one error; calculateQuantity throws iff the dosing is absent
\* or daysSupply <= 0 or daysSupply > 365, also for PRN or ambiguous dosing.
C17_DaysSupplyBounds ==
    /\ IsSome(daysOut) =>
          LET d == Get(daysIn)
              accepted == /\ d.type = "number"
                          /\ d.twice % 2 = 0
                          /\ d.twice \div 2 \in 1..365
          IN  /\ Get(daysOut).valid <=> accepted
              /\ Len(Get(daysOut).errors) = IF accepted THEN 0 ELSE 1
    /\ IsSome(qtyOut) =>
          LET sg == Get(qtyIn).sig
              days == Get(qtyIn).daysSupply
              out == Get(qtyOut)
          IN  /\ out.ok <=> (IsSome(sg) /\ days >= 1 /\ days <= 365)
              /\ ~out.ok =>
                    /\ out.error.kind = "object"
                    /\ out.error.message =
                          Some(IF ~IsSome(sg) THEN E_SigRequired
                               ELSE IF days <= 0 THEN E_DaysPositive
                               ELSE E_DaysTooLong)

\* PRN dosing with daysSupply 0 fails instead of returning 0
C17_Witness ==
    /\ IsSome(qtyOut)
    /\ IsSome(Get(qtyIn).sig)
    /\ Get(Get(qtyIn).sig).frequency = 0
    /\ Get(qtyIn).daysSupply = 0
    /\ ~Get(qtyOut).ok
    /\ Get(qtyOut).error.message = Some(E_DaysPositive)

RECURSIVE SumOver(_, _)
\* the sum of f[i] over the finite set I of integers
SumOver(f, I) ==
    IF I = {} THEN 0
    ELSE LET i == CHOOSE x \in I : TRUE IN f[i] + SumOver(f, I \ {i})

\* the bijections of 1..n onto itself
Perms(n) == {p \in [1..n -> 1..n] : \A i, j \in 1..n : p[i] = p[j] => i = j}

\* C18: for a non-empty schedule whose steps all have tablets >= 0 and days > 0,
\* calculateTaperQuantity returns totalQuantityNeeded = the sum of tablets * days
\* and daysSupply = the sum of days, the same for every permutation of the steps;
\* an empty schedule, or one with a step of tablets < 0 or days <= 0 at any
\* position, throws.
C18_TaperSum ==
    IsSome(taperOut) =>
        LET t == Get(taperIn)
            n == Len(t)
            out == Get(taperOut)
            wellFormed == n > 0 /\ \A i \in 1..n : t[i].tablets >= 0 /\ t[i].days > 0
        IN  /\ out.ok <=> wellFormed
            /\ wellFormed =>
                  /\ out.value.totalQuantityNeeded =
                        SumOver([i \in 1..n |-> t[i].tablets * t[i].days], 1..n)
                  /\ out.value.daysSupply = SumOver([i \in 1..n |-> t[i].days], 1..n)
                  /\ \A p \in Perms(n) :
                        LET again == calculateTaperQuantity([i \in 1..n |-> t[p[i]]])
                        IN  /\ again.ok
                            /\ again.value.totalQuantityNeeded = out.value.totalQuantityNeeded
                            /\ again.value.daysSupply = out.value.daysSupply
            /\ ~wellFormed =>
                  out.error.message = Some(IF n = 0 THEN E_TaperRequired ELSE E_TaperInvalid)

\* three distinct steps: 4 x 3 + 2 x 5 + 1 x 1 = 23 tablets over 9 days
C18_Witness ==
    /\ IsSome(taperOut)
    /\ Get(taperIn) = <<TaperStep(4, 3), TaperStep(2, 5), TaperStep(1, 1)>>
    /\ Get(taperOut).ok
    /\ Get(taperOut).value.totalQuantityNeeded = 23
    /\ Get(taperOut).value.daysSupply = 9

\* C19 (as claimed): every QuantityCalculation returned by calculateQuantity,
\* calculateTaperQuantity or estimatePRNQuantity has totalQuantityNeeded >= 0 and
\* dailyDose >= 0, whatever numbers the dose and the frequency are.
C19_QuantityNeverNegative ==
    /\ (IsSome(qtyOut) /\ Get(qtyOut).ok) =>
          /\ Get(qtyOut).value.totalQuantityNeeded >= 0
          /\ Get(qtyOut).value.dailyDose >= 0
    /\ (IsSome(taperOut) /\ Get(taperOut).ok) =>
          /\ Get(taperOut).value.totalQuantityNeeded >= 0
          /\ Get(taperOut).value.dailyDose.num >= 0
          /\ Get(taperOut).value.dailyDose.den > 0
    /\ IsSome(prnOut) =>
          /\ Get(prnOut).totalQuantityNeeded >= 0
          /\ Get(prnOut).dailyDose >= 0

----------------------------------------------------------------------------
(* Properties of selectOptimalNDCs, checked under SpecSel *)

Range(q) == {q[i] : i \in 1..Len(q)}
selNeed == Get(selIn).calculation.totalQuantityNeeded
selCompatible == filterCompatiblePackages(Get(selIn).packages, Get(selIn).calculation)
selSizes == {p.packageSize : p \in Range(selCompatible)}
\* primary followed by alternatives
selRanking == Get(selOut).primary \o Get(selOut).alternatives

\* C7 (as claimed): for totalNeeded = 120 with active compatible packages of sizes
\* 60 and 90 the size-60 package is primary (2 packages, 120 dispensed, 0%) and the
\* size-90 package (2 packages, 180 dispensed, 50%) is ranked behind it.
C7_Claimed60Wins ==
    (IsSome(selOut) /\ selNeed = 120 /\ Len(selCompatible) = 2 /\ selSizes = {60, 90}) =>
        /\ Len(selRanking) = 2
        /\ selRanking[1].packageSize = 60
        /\ selRanking[1].numberOfPackages = 2
        /\ selRanking[1].quantityToDispense = 120
        /\ selRanking[1].overfillPercentage = 0
        /\ selRanking[2].packageSize = 90

\* C7 (amended): among packages smaller than the need the one closest in size to
\* the need wins; for totalNeeded = 120 with sizes 60 and 90 the size-90 package is
\* primary (2 packages, 180 dispensed, 50% overfill) and the size-60 package
\* (2 packages, 120 dispensed, 0%) is ranked behind it.
C7_Closest90Wins ==
    /\ (IsSome(selOut) /\ selNeed = 120 /\ Len(selCompatible) = 2 /\ selSizes = {60, 90}) =>
          /\ Len(selRanking) = 2
          /\ selRanking[1].packageSize = 90
          /\ selRanking[1].numberOfPackages = 2
          /\ selRanking[1].quantityToDispense = 180
          /\ selRanking[1].overfillPercentage = 50 * PctScale
          /\ selRanking[2].packageSize = 60
          /\ selRanking[2].numberOfPackages = 2
          /\ selRanking[2].quantityToDispense = 120
          /\ selRanking[2].overfillPercentage = 0
    /\ (IsSome(selOut) /\ selNeed > 0) =>
          LET sizes == selSizes
          IN  (sizes # {} /\ \A z \in sizes : z < selNeed) =>
                 \A z \in sizes : z <= Get(selOut).primary[1].packageSize

C7_Witness ==
    /\ IsSome(selOut) /\ selNeed = 120 /\ Len(selCompatible) = 2 /\ selSizes = {60, 90}
    /\ Get(selOut).primary[1].packageSize = 90
    /\ Get(selOut).alternatives[1].packageSize = 60

\* C8 (as claimed): whenever an active compatible candidate has size >= totalNeeded,
\* the primary is such a candidate (1 package) and no candidate with size <
\* totalNeeded is ranked before a candidate with size >= totalNeeded.
C8_BandSeparatesClasses ==
    (IsSome(selOut) /\ selNeed > 0 /\ \E z \in selSizes : z >= selNeed) =>
        /\ Get(selOut).primary[1].packageSize >= selNeed
        /\ Get(selOut).primary[1].numberOfPackages = 1
        /\ \A i, j \in 1..Len(selRanking) :
              i < j => ~(selRanking[i].packageSize < selNeed
                         /\ selRanking[j].packageSize >= selNeed)

\* the first active compatible candidate of exactly the needed size
selFirstExact ==
    selCompatible[CHOOSE i \in 1..Len(selCompatible) :
                     /\ selCompatible[i].packageSize = selNeed
                     /\ \A j \in 1..(i - 1) : selCompatible[j].packageSize # selNeed]

\* C9 (as claimed): if totalNeeded > 0 and an active compatible candidate has
\* size = totalNeeded, the primary is the first such candidate, with 1 package,
\* quantityToDispense = totalNeeded and 0% overfill, and no warning is emitted.
C9_ExactSizeChosen ==
    (IsSome(selOut) /\ selNeed > 0 /\ selNeed \in selSizes) =>
        /\ Get(selOut).primary[1].packageSize = selNeed
        /\ Get(selOut).primary[1].ndc = selFirstExact.ndc
        /\ Get(selOut).primary[1].numberOfPackages = 1
        /\ Get(selOut).primary[1].quantityToDispense = selNeed
        /\ Get(selOut).primary[1].overfillPercentage = 0
        /\ Get(selOut).warnings = <<>>

\* C10: every selection returned (primary and alternatives), for totalNeeded > 0,
\* has packageCount = ceil(totalNeeded / size) >= 1, quantityToDispense = size *
\* packageCount, totalNeeded <= quantityToDispense < totalNeeded + size and
\* overfillPercent >= 0.
C10_DispensedCoversNeed ==
    (IsSome(selOut) /\ selNeed > 0) =>
        \A e \in Range(selRanking) :
            /\ e.packageSize > 0
            /\ e.numberOfPackages >= 1
            /\ (e.numberOfPackages - 1) * e.packageSize < selNeed
            /\ selNeed <= e.numberOfPackages * e.packageSize
            /\ e.quantityToDispense = e.packageSize * e.numberOfPackages
            /\ selNeed <= e.quantityToDispense
            /\ e.quantityToDispense < selNeed + e.packageSize
            /\ e.overfillPercentage >= 0

\* a primary of several packages with overfill, and an alternative of one package
C10_Witness ==
    /\ IsSome(selOut) /\ selNeed = 45
    /\ Len(Get(selOut).primary) = 1 /\ Len(Get(selOut).alternatives) >= 1
    /\ \E i \in 1..Len(selRanking) :
          selRanking[i].numberOfPackages = 2 /\ selRanking[i].quantityToDispense = 60
    /\ \E i \in 1..Len(selRanking) :
          selRanking[i].numberOfPackages = 1 /\ selRanking[i].overfillPercentage > 0

selPackages == Get(selIn).packages
selUnit == Get(selIn).calculation.unit
selMaxOverfill == optionOr(Get(selIn).options.maxOverfillPercent, DefaultMaxOverfill)
selMaxAlternatives == optionOr(Get(selIn).options.maxAlternatives, DefaultMaxAlternatives)
Min(a, b) == IF a < b THEN a ELSE b

\* the unit of a package against the unit of a quantity, for the units drawn:
\* the pairs that section 4.3 of the specification makes compatible
C11_CompatibleUnits ==
    {<<U_tablet, U_tablet>>, <<U_tablets, U_tablet>>, <<U_Tablet_padded, U_tablet>>,
     <<U_ml, U_ml>>, <<U_DOSEIS, U_doseis>>}

\* C11: every entry of primary and alternatives comes from an input record that
\* is active and unit-compatible; filterCompatiblePackages returns exactly those
\* records in input order; with totalNeeded > 0 and no such record the result is
\* empty primary and alternatives and the single warning 'No compatible active
\* NDCs found'.
C11_OnlyActiveCompatibleSelected ==
    IsSome(selOut) =>
        LET pk == selPackages
            good == {i \in 1..Len(pk) :
                        pk[i].active /\ <<pk[i].packageUnit, selUnit>> \in C11_CompatibleUnits}
            compat == selCompatible
        IN  /\ \A e \in Range(selRanking) :
                  \E i \in good : /\ pk[i].ndc = e.ndc
                                  /\ pk[i].packageSize = e.packageSize
                                  /\ pk[i].packageUnit = e.packageUnit
            /\ Len(compat) = Cardinality(good)
            /\ \A i \in good : compat[Cardinality({j \in good : j <= i})] = pk[i]
            /\ (selNeed > 0 /\ good = {}) =>
                  /\ Get(selOut).primary = <<>>
                  /\ Get(selOut).alternatives = <<>>
                  /\ Get(selOut).warnings = <<W_NoCompatible>>

\* an inactive and an incompatible record before the one that is selected, whose
\* unit in Greek capitals matches the quantity's unit in small letters
C11_Witness ==
    /\ IsSome(selOut)
    /\ selPackages = <<P_tab30old, P_tab30b, P_doseis30>>
    /\ selNeed = 30
    /\ selUnit = U_doseis
    /\ Len(Get(selOut).primary) = 1
    /\ Get(selOut).primary[1].ndc = P_doseis30.ndc
    /\ Get(selOut).alternatives = <<>>

\* C12: with totalNeeded = 0 the result is empty primary and alternatives and
\* the single warning that the quantity could not be calculated, for every
\* candidate list, also one without a compatible active package.
C12_ZeroQuantityShortCircuit ==
    (IsSome(selOut) /\ selNeed = 0) =>
        /\ Get(selOut).primary = <<>>
        /\ Get(selOut).alternatives = <<>>
        /\ Get(selOut).warnings = <<W_ZeroQuantity>>

\* zero quantity and only an inactive candidate: the zero-quantity warning wins
C12_Witness ==
    /\ IsSome(selOut)
    /\ selNeed = 0
    /\ selPackages = <<P_tab30old>>
    /\ selCompatible = <<>>
    /\ Get(selOut).warnings = <<W_ZeroQuantity>>

\* C13: when a primary exists, the overfill warning is emitted iff the primary's
\* overfillPercentage > maxOverfillPercent, the multi-package warning iff the
\* primary's numberOfPackages > 1, and there is no other warning.
C13_PrimaryWarnings ==
    (IsSome(selOut) /\ Get(selOut).primary # <<>>) =>
        LET p == Get(selOut).primary[1]
            w == Get(selOut).warnings
            over == W_Overfill(p.overfillPercentage, selMaxOverfill)
            multi == W_MultiPackage(p.numberOfPackages)
        IN  /\ over \in Range(w) <=> p.overfillPercentage > selMaxOverfill * PctScale
            /\ multi \in Range(w) <=> p.numberOfPackages > 1
            /\ Range(w) \subseteq {over, multi}
            /\ Len(w) = Cardinality(Range(w))

\* overfill of exactly the threshold (50%): only the multi-package warning
C13_Witness ==
    /\ IsSome(selOut)
    /\ selMaxOverfill = 50
    /\ Get(selOut).primary # <<>>
    /\ Get(selOut).primary[1].overfillPercentage = 50 * PctScale
    /\ Get(selOut).primary[1].numberOfPackages = 2
    /\ Get(selOut).warnings = <<W_MultiPackage(2)>>

\* C14: with k >= 1 active compatible candidates, primary has one entry, of the
\* lowest score; alternatives are the candidates of the 2nd to
\* (maxAlternatives+1)th score, min(maxAlternatives, k - 1) of them, in
\* non-decreasing score order, and the primary candidate is not among them.
C14_AlternativesAreRunnersUp ==
    (IsSome(selOut) /\ selNeed > 0) =>
        LET compat == selCompatible
            k == Len(compat)
            sc == [i \in 1..k |-> scorePackage(compat[i], selNeed)]
            \* the r-th smallest score
            nth(r) == CHOOSE v \in Range(sc) :
                         /\ Cardinality({j \in 1..k : sc[j] < v}) < r
                         /\ Cardinality({j \in 1..k : sc[j] <= v}) >= r
            ranking == selRanking
        IN  k >= 1 =>
              /\ Len(Get(selOut).primary) = 1
              /\ Len(Get(selOut).alternatives) = Min(selMaxAlternatives, k - 1)
              /\ \A r \in 1..Len(ranking) :
                    /\ ranking[r].score = nth(r)
                    /\ \E i \in 1..k : ranking[r] = makeSelection(compat[i], selNeed)
              /\ \A r \in 1..(Len(ranking) - 1) : ranking[r].score <= ranking[r + 1].score
              /\ (\A i, j \in 1..k : i # j => compat[i].ndc # compat[j].ndc) =>
                    \A a \in Range(Get(selOut).alternatives) :
                        a.ndc # Get(selOut).primary[1].ndc

\* five candidates under the default maxAlternatives: three alternatives
C14_Witness ==
    /\ IsSome(selOut)
    /\ selNeed = 120
    /\ Len(selCompatible) = 5
    /\ Get(selIn).options.maxAlternatives = None
    /\ Len(Get(selOut).alternatives) = DefaultMaxAlternatives
    /\ Get(selOut).primary[1].score < Get(selOut).alternatives[3].score

----------------------------------------------------------------------------
(* unitsMatch applied to drawn arguments *)

U_caps == <<"c","a","p","s">>
U_patches == <<"p","a","t","c","h","e","s">>
U_box == <<"b","o","x">>
U_boxes == <<"b","o","x","e","s">>
U_TABLET == <<"T","A","B","L","E","T">>
U_mL_padded == <<"\t","m","L","\n">>
U_empty == <<>>
U_s == <<"s">>
\* a unit with an upper-case letter beyond ASCII, and its lower case
U_ECU == <<"U+00C9","C","U">>
U_ecu == <<"U+00E9","c","u">>
\* `doses` in small Greek letters with the sigma of the middle of a word last
U_doseis_medial == <<"U+03B4","U+03BF","U+03C3","U+03B5","U+03B9","U+03C3">>
\* a capital sigma after a letter without case (U+0295), and its lower case
U_AIN_SIGMA == <<"U+0295","U+03A3">>
U_ain_sigma == <<"U+0295","U+03C3">>
\* a capital sigma after a cased letter: its lower case is the final sigma
U_A_SIGMA == <<"A","U+03A3">>
U_a_sigma_final == <<"a","U+03C2">>

UnitStrings ==
    {U_tablet, U_tablets, U_tab, U_capsule, U_capsules, U_cap, U_ml, U_milliliter,
     U_milliliters, U_mg, U_milligram, U_milligrams, U_g, U_gram, U_grams, U_mcg,
     U_microgram, U_micrograms, U_ug, U_patch, U_patches, U_caps, U_box, U_boxes,
     U_TABLET, U_Tablet_padded, U_tablet_crlf, U_mL_padded, U_empty, U_s, U_ECU, U_ecu,
     U_DOSEIS, U_doseis, U_doseis_medial, U_AIN_SIGMA, U_ain_sigma, U_A_SIGMA,
     U_a_sigma_final}

UnitInit ==
    /\ \E p \in UnitStrings, c \in UnitStrings :
          unitIn = Some([packageUnit |-> p, calculationUnit |-> c])
    /\ unitOut = None

Match ==
    /\ unitOut = None
    /\ unitOut' = Some(unitsMatch(Get(unitIn).packageUnit, Get(unitIn).calculationUnit))
    /\ UNCHANGED unitIn

InitUnits == UnitInit /\ PipeIdle /\ SelIdle /\ QtyIdle /\ PostIdle /\ DrugIdle /\ AssessIdle /\ RelIdle /\ CacheIdle /\ RxIdle /\ BatchIdle
NextUnits == Match /\ UNCHANGED <<pipeVars, selVars, qtyVars, postVars, drugVars, assessVars, relVars, cacheVars, rxVars, batchVars>>
SpecUnits == InitUnits /\ [][NextUnits]_vars

\* the synonym groups of the units
SynonymGroups ==
    {{U_tablet, U_tab, U_tablets},
     {U_capsule, U_cap, U_capsules},
     {U_ml, U_milliliter, U_milliliters},
     {U_mg, U_milligram, U_milligrams},
     {U_g, U_gram, U_grams},
     {U_mcg, U_microgram, U_micrograms, U_ug}}

\* each unit drawn that lowercasing and trimming change, with what they make
\* of it; every other unit drawn is left as it is
C16_Folded ==
    {<<U_TABLET, U_tablet>>, <<U_Tablet_padded, U_tablet>>, <<U_tablet_crlf, U_tablet>>,
     <<U_mL_padded, U_ml>>, <<U_ECU, U_ecu>>, <<U_DOSEIS, U_doseis>>,
     <<U_AIN_SIGMA, U_ain_sigma>>, <<U_A_SIGMA, U_a_sigma_final>>}

C16_Fold(u) ==
    IF \E f \in C16_Folded : f[1] = u THEN (CHOOSE f \in C16_Folded : f[1] = u)[2] ELSE u

\* C16: unitsMatch is true iff, after lowercasing and trimming both strings,
\* they are equal, or one is the other with 's' or 'es' appended, or both
\* belong to one synonym group.
C16_UnitsMatchReference ==
    IsSome(unitOut) =>
        LET a == C16_Fold(Get(unitIn).packageUnit)
            b == C16_Fold(Get(unitIn).calculationUnit)
            plural(x, y) == y = x \o <<"s">> \/ y = x \o <<"e", "s">>
        IN  Get(unitOut) <=>
               \/ a = b
               \/ plural(a, b) \/ plural(b, a)
               \/ \E g \in SynonymGroups : a \in g /\ b \in g

\* patch against patches is compatible by the 'es' rule
C16_Witness ==
    /\ IsSome(unitOut)
    /\ Get(unitIn).packageUnit = U_patches
    /\ Get(unitIn).calculationUnit = U_patch
    /\ Get(unitOut) = TRUE

----------------------------------------------------------------------------
(* Properties of calculatePrescription, checked under Spec *)

res == Get(result)
resErrors == IF IsSome(res.errors) THEN Get(res.errors) ELSE <<>>
failedSteps == {failed[i].step : i \in 1..Len(failed)}
lastFailed == failed[Len(failed)]
lastCall == calls[Len(calls)]

FatalSteps == {"validateDrugInput", "validateDaysSupply", "normalizeDrug", "parseSIG",
               "calculateQuantity"}
RecoverableSteps == {"getRxCUINDCs", "getMultipleNDCPackages", "selectOptimalNDCs"}

\* C1: on every exit path, success is true iff the result has no errors and
\* selectedNDCs is non-empty.
C1_SuccessIffNoErrorsAndSelection ==
    IsSome(result) =>
        (res.success <=> (Len(resErrors) = 0 /\ Len(res.selectedNDCs) > 0))

\* a successful result: no errors, a primary selection
C1_Witness ==
    /\ IsSome(result)
    /\ res.success
    /\ ~IsSome(res.errors)
    /\ Len(res.selectedNDCs) = 1
    /\ calls[Len(calls)] = "selectOptimalNDCs"

\* C2 (as claimed): no exception leaves calculatePrescription, whatever a
\* validator or a step throws: the function ends with a result, and a result
\* produced by the catch-all handler has success = false and a non-empty errors
\* list.
C2_NoExceptionEscapes ==
    /\ ~escaped
    /\ pc = "done" => IsSome(result)
    /\ (IsSome(result) /\ "top-level" \in Range(caughtBy)) =>
          /\ ~res.success
          /\ IsSome(res.errors)
          /\ Len(Get(res.errors)) > 0

\* a validator fails by returning an invalid verdict
Validators == {"validateDrugInput", "validateDaysSupply"}

\* C3: a failure of validateDrugInput, validateDaysSupply (an invalid verdict),
\* normalizeDrug, parseSIG or calculateQuantity ends the run at once: the
\* failing call is the last call made, and the result has success = false, a
\* non-empty errors list that holds the failure (its message when it carries a
\* non-empty one), no selections, and the data of the steps completed before.
C3_FatalStepStopsPipeline ==
    (/\ failed # <<>>
     /\ lastFailed.step \in FatalSteps
     /\ lastFailed.step \in Validators => ~IsSome(lastFailed.error)) =>
        /\ pc = "done"
        /\ IsSome(result)
        /\ IF lastFailed.step = "normalizeDrug"
           THEN lastCall \in {"normalizeDrug", "ndcToRxCUI", "drugNameToRxCUI"}
           ELSE lastCall = lastFailed.step
        /\ ~res.success
        /\ IsSome(res.errors)
        /\ Len(Get(res.errors)) > 0
        /\ (/\ IsSome(lastFailed.error)
            /\ IsSome(Get(lastFailed.error).message)
            /\ Get(Get(lastFailed.error).message) # Msg("")) =>
              Get(Get(lastFailed.error).message) \in Range(Get(res.errors))
        /\ lastFailed.step = "validateDrugInput" =>
              Get(res.errors) = validateDrugInput(input.drugNameOrNDC).errors
        /\ lastFailed.step = "validateDaysSupply" =>
              Get(res.errors) = validateDaysSupply(input.daysSupply).errors
        /\ res.selectedNDCs = <<>>
        /\ ~IsSome(res.alternativeNDCs)
        /\ ~IsSome(res.calculation)
        /\ IsSome(res.parsedSIG) <=> lastFailed.step = "calculateQuantity"
        /\ IsSome(res.normalizedDrug) <=> lastFailed.step \in {"parseSIG", "calculateQuantity"}

\* parseSIG threw an object with a message: the result holds the identity only
C3_Witness ==
    /\ IsSome(result)
    /\ failed # <<>>
    /\ lastFailed.step = "parseSIG"
    /\ Get(lastFailed.error).kind = "object"
    /\ IsSome(res.normalizedDrug)
    /\ ~IsSome(res.parsedSIG)
    /\ Len(Get(res.errors)) = 1

\* C4 (as claimed): when only getRxCUINDCs, getMultipleNDCPackages or
\* selectOptimalNDCs failed, the result has no errors, success = false, no
\* selections, a warning for the failure, and identity, dosing and quantity.
C4_RecoverableNeverErrors ==
    (IsSome(result) /\ failed # <<>> /\ failedSteps \subseteq RecoverableSteps) =>
        /\ ~IsSome(res.errors)
        /\ ~res.success
        /\ res.selectedNDCs = <<>>
        /\ Len(res.warnings) >= Len(failed)
        /\ IsSome(res.normalizedDrug)
        /\ IsSome(res.parsedSIG)
        /\ IsSome(res.calculation)

\* the warnings that tell that the quantity could not be derived
ManualReviewWarnings == {W_ZeroReview, W_ZeroQuantity, W_Ambiguous, C_Clarify}

\* C5 (as claimed): when identity and dosing succeed and the dosing is PRN
\* (frequency 0) or ambiguous, then whatever the catalog and package lookups
\* return or throw, the result has no errors, success = false, no selections and
\* a warning telling that the quantity could not be derived.
C5_PRNSignalledByWarning ==
    (/\ IsSome(result)
     /\ IsSome(parsedSIG)
     /\ Get(parsedSIG).frequency = 0 \/ Get(parsedSIG).isAmbiguous
     /\ failedSteps \subseteq {"getRxCUINDCs", "getMultipleNDCPackages"}
     /\ \A i \in 1..Len(failed) : ~isNullish(Get(failed[i].error))) =>
        /\ ~IsSome(res.errors)
        /\ ~res.success
        /\ res.selectedNDCs = <<>>
        /\ Range(res.warnings) \cap ManualReviewWarnings # {}

----------------------------------------------------------------------------
(* validateDrugInput and normalizeDrug applied to drawn arguments *)

\* n copies of the character c
Repeat(c, n) == [i \in 1..n |-> c]

D_blank == <<" "," "," ">>
D_a_padded == <<" ","a"," ">>
D_ab == <<"a","b">>
D_ab_padded == <<" "," ","a","b","\t">>
D_aspirin81 == <<"A","s","p","i","r","i","n"," ","8","1"," ","m","g">>
D_1 == <<"1">>
D_12 == <<"1","2">>
D_digits9 == <<"1","2","3","4","5","6","7","8","9">>
D_digits10 == <<"1","2","3","4","5","6","7","8","9","0">>
D_digits11 == <<"1","2","3","4","5","6","7","8","9","0","1">>
D_digits12 == <<"1","2","3","4","5","6","7","8","9","0","1","2">>
D_ndcDashed == <<"1","2","3","4","5","-","6","7","8","9","-","0","1">>
D_ndcDashed_padded == <<" "," ","1","2","3","4","5","-","6","7","8","9","-","0","1"," ">>
D_ndcSpaced == <<"1","2","3","4","5"," ","6","7","8","9"," ","0">>
D_shortCode == <<"1","2","3","4","-","5","6","7">>
D_dashes == <<"-","-">>
D_dashSpace == <<"-"," ","-">>
D_ndcTab == <<"1","2","3","4","5","\t","6","7","8","9","0","1">>
D_digits11a == <<"1","2","3","4","5","6","7","8","9","0","1","a">>
D_digits10mg == <<"1","2","3","4","5","6","7","8","9","0"," ","m","g">>
D_long200 == Repeat("x", MaxDrugLen)
D_long201 == Repeat("x", MaxDrugLen + 1)
D_long200_padded == <<" ">> \o Repeat("x", MaxDrugLen) \o <<"\n">>
D_digits201 == Repeat("7", MaxDrugLen + 1)
D_cr == <<"\r">>
D_12cr3 == <<"1","2","\r","3">>
D_digits10_cr == <<"1","2","3","4","5","6","7","8","9","0","\r">>
D_nbsp_ab == <<"U+00A0","a","b","\f">>

DrugStrings ==
    {S_empty, S_a, S_aspirin, S_ndc, S_123,
     D_blank, D_a_padded, D_ab, D_ab_padded, D_aspirin81, D_1, D_12, D_digits9,
     D_digits10, D_digits11, D_digits12, D_ndcDashed, D_ndcDashed_padded, D_ndcSpaced,
     D_shortCode, D_dashes, D_dashSpace, D_ndcTab, D_digits11a, D_digits10mg,
     D_long200, D_long201, D_long200_padded, D_digits201,
     D_cr, D_12cr3, D_digits10_cr, D_nbsp_ab}

\* what the resolver called by normalizeDrug does
ResolverOutcomes ==
    {Return(RxCUI),
     resolverOutcome("drugNameToRxCUI", "noMatch"),
     Throw(Thrown("Error", Some(E_RxNormHttp)))}

DrugInit ==
    /\ \E s \in DrugStrings, r \in ResolverOutcomes :
          drugIn = Some([input |-> s, resolved |-> r])
    /\ drugOut = None

ValidateDrug ==
    /\ drugOut = None
    /\ drugOut' = Some([fn |-> "validateDrugInput",
                        value |-> validateDrugInput(Get(drugIn).input)])
    /\ UNCHANGED drugIn

NormalizeDrug ==
    /\ drugOut = None
    /\ drugOut' = Some([fn |-> "normalizeDrug",
                        value |-> normalizeDrug(Get(drugIn).input, Get(drugIn).resolved)])
    /\ UNCHANGED drugIn

InitDrug == DrugInit /\ PipeIdle /\ SelIdle /\ QtyIdle /\ UnitIdle /\ PostIdle /\ AssessIdle /\ RelIdle /\ CacheIdle /\ RxIdle /\ BatchIdle
NextDrug ==
    \/ ValidateDrug /\ UNCHANGED <<pipeVars, selVars, qtyVars, unitVars, postVars, assessVars, relVars, cacheVars, rxVars, batchVars>>
    \/ NormalizeDrug /\ UNCHANGED <<pipeVars, selVars, qtyVars, unitVars, postVars, assessVars, relVars, cacheVars, rxVars, batchVars>>
SpecDrug == InitDrug /\ [][NextDrug]_vars

(* Properties of the normalizer, checked under SpecDrug *)

\* the number of digits in a string
digitCount(t) == Cardinality({i \in 1..Len(t) : t[i] \in Digits})
\* only digits, dashes and white space
onlyCodeCharacters(t) == \A i \in 1..Len(t) : t[i] \in Digits \cup Whitespace \cup {"-"}
\* exactly 10 or 11 digits once dashes and white space are removed
codeShaped(t) == onlyCodeCharacters(t) /\ digitCount(t) \in {10, 11}

\* C21: validateDrugInput rejects the input iff its trimmed form is empty,
\* shorter than 2 or longer than 200 characters, or is made of digits, dashes
\* and white space only without holding exactly 10 or 11 digits; normalizeDrug,
\* for an input whose trimmed form is not empty, calls one resolver with the
\* trimmed string: the code resolver iff the trimmed string is code shaped,
\* otherwise the name resolver.
C21_DrugInputHandling ==
    IsSome(drugOut) =>
        LET in == Get(drugIn).input
            t == trim(in)
            out == Get(drugOut).value
        IN  /\ Get(drugOut).fn = "validateDrugInput" =>
                 (~out.valid <=>
                     \/ Len(t) = 0
                     \/ Len(t) < 2
                     \/ Len(t) > 200
                     \/ onlyCodeCharacters(t) /\ digitCount(t) \notin {10, 11})
            /\ (Get(drugOut).fn = "normalizeDrug" /\ Len(t) > 0) =>
                 /\ out.resolver =
                       Some(IF codeShaped(t) THEN "ndcToRxCUI" ELSE "drugNameToRxCUI")
                 /\ out.argument = Some(t)

\* a dashed code with surrounding white space goes to the code resolver, trimmed
C21_Witness ==
    /\ IsSome(drugOut)
    /\ Get(drugOut).fn = "normalizeDrug"
    /\ Get(drugIn).input = D_ndcDashed_padded
    /\ Get(drugOut).value.resolver = Some("ndcToRxCUI")
    /\ Get(drugOut).value.argument = Some(D_ndcDashed)

----------------------------------------------------------------------------
(* isQuantityReasonable applied to drawn arguments, beside calculatePrescription *)

AssessCalculations ==
    {[totalQuantityNeeded |-> t, unit |-> u, daysSupply |-> 30, dailyDose |-> d] :
        t \in {-1, 0, 1, HighQuantity - 1, HighQuantity, HighQuantity + 1, 5 * HighQuantity},
        d \in {0, 1, HighDailyDose - 1, HighDailyDose, HighDailyDose + 1, 5 * HighDailyDose},
        u \in {U_tablet, U_ml}}

AssessInit ==
    /\ \E c \in AssessCalculations : assessIn = Some(c)
    /\ assessOut = None

Assess ==
    /\ IsSome(assessIn)
    /\ assessOut = None
    /\ assessOut' = Some(isQuantityReasonable(Get(assessIn)))
    /\ UNCHANGED assessIn

InitAssess ==
    \/ Init
    \/ AssessInit /\ PipeIdle /\ SelIdle /\ QtyIdle /\ UnitIdle /\ PostIdle /\ DrugIdle /\ RelIdle /\ CacheIdle /\ RxIdle /\ BatchIdle
NextAssess ==
    \/ Next
    \/ Assess /\ UNCHANGED <<pipeVars, selVars, qtyVars, unitVars, postVars, drugVars, relVars, cacheVars, rxVars, batchVars>>
SpecAssess == InitAssess /\ [][NextAssess]_vars

(* Properties of isQuantityReasonable, checked under SpecAssess *)

\* the warnings the three conditions call for
assessmentWarnings(calc) ==
    (IF calc.totalQuantityNeeded > 1000
     THEN {W_HighQuantity(calc.totalQuantityNeeded)} ELSE {})
    \cup (IF calc.dailyDose > 100 THEN {W_HighDailyDose(calc.dailyDose)} ELSE {})
    \cup (IF calc.totalQuantityNeeded = 0 THEN {W_ZeroReview} ELSE {})

\* C23: isQuantityReasonable returns one warning for each condition that holds
\* among totalQuantityNeeded > 1000, dailyDose > 100 and totalQuantityNeeded = 0
\* and no other, with reasonable true iff there is no warning; inside
\* calculatePrescription these warnings go to warnings, never to errors, and
\* selectOptimalNDCs is still invoked whenever there are packages.
C23_AssessmentIsAdvisory ==
    /\ IsSome(assessOut) =>
          LET out == Get(assessOut)
              expected == assessmentWarnings(Get(assessIn))
          IN  /\ Range(out.warnings) = expected
              /\ Len(out.warnings) = Cardinality(expected)
              /\ out.reasonable <=> (expected = {})
    /\ (pc \in {"selectOptimalNDCs", "return", "done"} /\ IsSome(calculation)
        /\ "isQuantityReasonable" \in Range(calls)) =>
          LET expected == assessmentWarnings(Get(calculation))
          IN  /\ expected \subseteq Range(warnings)
              /\ expected \cap Range(errors) = {}
              /\ (pc = "done" /\ IsSome(result)) =>
                    /\ expected \subseteq Range(res.warnings)
                    /\ expected \cap Range(resErrors) = {}
              /\ (pc \in {"return", "done"} /\ Len(packages) > 0) =>
                    "selectOptimalNDCs" \in Range(calls)

\* a run whose quantity is flagged for manual review and very high quantities
\* still reaches the selector
C23_Witness ==
    /\ pc = "done"
    /\ IsSome(result)
    /\ IsSome(calculation)
    /\ Get(calculation).totalQuantityNeeded > 1000
    /\ W_HighQuantity(Get(calculation).totalQuantityNeeded) \in Range(res.warnings)
    /\ "selectOptimalNDCs" \in Range(calls)
    /\ Len(selectedNDCs) > 0

----------------------------------------------------------------------------
(* Step order of calculatePrescription, checked under Spec *)

\* the first position of a call in calls, 0 when it was not made
firstCall(name) ==
    IF name \in Range(calls)
    THEN CHOOSE i \in 1..Len(calls) :
            calls[i] = name /\ \A j \in 1..(i - 1) : calls[j] # name
    ELSE 0

\* C24 (as claimed): once parseSIG has succeeded, calculateQuantity has
\* completed before getRxCUINDCs is invoked, and every result returned after
\* getRxCUINDCs was invoked, the one returned for an empty code list included,
\* carries the calculation.
C24_QuantityBeforeCatalogCodes ==
    "getRxCUINDCs" \in Range(calls) =>
        /\ firstCall("calculateQuantity") > 0
        /\ firstCall("calculateQuantity") < firstCall("getRxCUINDCs")
        /\ (pc = "done" /\ IsSome(result)) => IsSome(res.calculation)

----------------------------------------------------------------------------
(* unitsMatch applied to three drawn strings *)

U_tabs == <<"t","a","b","s">>

RelStrings ==
    {U_tablet, U_tablets, U_tab, U_tabs, U_TABLET, U_Tablet_padded, U_capsule, U_cap,
     U_caps, U_ml, U_mL_padded, U_milliliters, U_g, U_grams, U_patch, U_patches, U_box,
     U_boxes, U_s, U_empty}

RelInit ==
    /\ \E a \in RelStrings, b \in RelStrings, c \in RelStrings : relIn = Some(<<a, b, c>>)
    /\ relOut = None

\* unitsMatch on the pairs of the three strings
Relate ==
    /\ relOut = None
    /\ LET a == Get(relIn)[1]
           b == Get(relIn)[2]
           c == Get(relIn)[3]
       IN  relOut' = Some([aa |-> unitsMatch(a, a), ab |-> unitsMatch(a, b),
                           ba |-> unitsMatch(b, a), bc |-> unitsMatch(b, c),
                           ac |-> unitsMatch(a, c)])
    /\ UNCHANGED relIn

InitRel == RelInit /\ PipeIdle /\ SelIdle /\ QtyIdle /\ UnitIdle /\ PostIdle /\ DrugIdle /\ AssessIdle /\ CacheIdle /\ RxIdle /\ BatchIdle
NextRel == Relate /\ UNCHANGED <<pipeVars, selVars, qtyVars, unitVars, postVars, drugVars, assessVars, cacheVars, rxVars, batchVars>>
SpecRel == InitRel /\ [][NextRel]_vars

\* C30 (as claimed): unitsMatch is reflexive, symmetric and transitive.
C30_UnitsMatchIsEquivalence ==
    IsSome(relOut) =>
        /\ Get(relOut).aa
        /\ Get(relOut).ab <=> Get(relOut).ba
        /\ (Get(relOut).ab /\ Get(relOut).bc) => Get(relOut).ac

----------------------------------------------------------------------------
(* fda-ndc.ts: getMultipleNDCPackages *)

\* longest code list passed to getMultipleNDCPackages
MaxBatchCodes == 11
\* const batchSize = 5
BatchSize == 5

\* what getNDCPackageInfo does for one code: resolve with a record (whose
\* packaging carries the code asked for, another package_ndc, or none), resolve
\* with null (404, no results, no packaging), or reject with an APIError
Answers == {"record", "recordOtherNdc", "recordNoPackageNdc", "null", "rejects"}
isRecord(answer) == answer \in {"record", "recordOtherNdc", "recordNoPackageNdc"}

N_otherNdc == <<"9","9","9","9","9","-","9","9","9","9","-","9","9">>

\* normalizeNDC: 11 digits as 5-4-2, 10 digits as 0 + 4-4-2, anything else as passed
normalizeNDC(ndc) ==
    LET digitsOnly == SelectSeq(ndc, LAMBDA c : c \in Digits)
    IN  IF Len(digitsOnly) = 11
        THEN SubSeq(digitsOnly, 1, 5) \o <<"-">> \o SubSeq(digitsOnly, 6, 9) \o <<"-">>
             \o SubSeq(digitsOnly, 10, 11)
        ELSE IF Len(digitsOnly) = 10
        THEN <<"0">> \o SubSeq(digitsOnly, 1, 4) \o <<"-">> \o SubSeq(digitsOnly, 5, 8)
             \o <<"-">> \o SubSeq(digitsOnly, 9, 10)
        ELSE ndc

\* packageInfo.package_ndc of an answer that carries a record
packageNdcOf(ndc, answer) ==
    IF answer = "record" THEN Some(normalizeNDC(ndc))
    ELSE IF answer = "recordOtherNdc" THEN Some(N_otherNdc)
    ELSE None

\* the NDCPackage built for a code, as far as its ndc:
\* packageInfo.package_ndc || normalizedNDC
recordOf(ndc, packageNdc) ==
    [ndc |-> IF IsSome(packageNdc) /\ Get(packageNdc) # <<>> THEN Get(packageNdc)
             ELSE normalizeNDC(ndc)]

\* the codes of a list of n: 11 digits, 10 digits and dashed, in turn
DigitOf == <<"0","1","2","3","4","5","6","7","8","9">>
codeAt(j) ==
    LET tail == <<DigitOf[(j \div 10) + 1], DigitOf[(j % 10) + 1]>>
    IN  IF j % 3 = 1 THEN <<"1","2","3","4","5","6","7","8","9">> \o tail
        ELSE IF j % 3 = 2 THEN <<"1","2","3","4","5","6","7","8">> \o tail
        ELSE <<"1","2","3","4","5","-","6","7","8","9","-">> \o tail

\* the answers of the lookups of a list of n codes
AnswerLists(n) ==
    {[j \in 1..n |-> a] : a \in Answers}
    \cup {[j \in 1..n |-> IF j % 5 = 1 THEN "record" ELSE IF j % 5 = 2 THEN "null"
                          ELSE IF j % 5 = 3 THEN "rejects"
                          ELSE IF j % 5 = 4 THEN "recordOtherNdc"
                          ELSE "recordNoPackageNdc"]}
    \cup {[j \in 1..n |-> IF j = k THEN "rejects" ELSE "record"] : k \in {1, n}}
    \cup {[j \in 1..n |-> IF j = k THEN "record" ELSE "null"] : k \in {2, n}}

\* getNDCPackageInfo(ndc) as seen by Promise.all when called bare: a rejection
\* is passed on
settledBare(ndcs, answers, j) ==
    IF isRecord(answers[j])
    THEN Return(Some(recordOf(ndcs[j], packageNdcOf(ndcs[j], answers[j]))))
    ELSE IF answers[j] = "null" THEN Return(None)
    ELSE Throw(Thrown("object", Some(Msg("Unknown error"))))

\* getNDCPackageInfo(ndc).catch(() => null)
settled(ndcs, answers, j) ==
    IF isRecord(answers[j])
    THEN Return(Some(recordOf(ndcs[j], packageNdcOf(ndcs[j], answers[j]))))
    ELSE Return(None)

\* the positions of ndcs.slice(i, i + batchSize)
batchPositions(ndcs, i) ==
    {j \in 1..Len(ndcs) : i < j /\ j <= i + BatchSize}

\* `i + batchSize <= ndcs.length` in place of the test of the code
delayNeededInclusive(ndcs, i) == i + BatchSize <= Len(ndcs)

\* if (i + batchSize < ndcs.length)
delayNeeded(ndcs, i) == i + BatchSize < Len(ndcs)

\* results.filter((pkg) => pkg !== null), results in the order of the batch
RECURSIVE nonNull(_, _, _)
nonNull(lookups, from, to) ==
    IF from > to THEN <<>>
    ELSE (IF lookups[from].result.value # None
          THEN <<Get(lookups[from].result.value)>> ELSE <<>>)
         \o nonNull(lookups, from + 1, to)

BatchInit ==
    /\ \E n \in 0..MaxBatchCodes : \E a \in AnswerLists(n) :
          batchIn = [ndcs |-> [j \in 1..n |-> codeAt(j)], answers |-> a]
    /\ batchPc = "loop"
    /\ batchIndex = 0
    /\ batchLookups = [state |-> [j \in 1..Len(batchIn.ndcs) |-> [at |-> "notStarted", result |-> None]],
                       outOfOrder |-> FALSE]
    /\ batchPackages = <<>>
    /\ batchDelays = [started |-> 0, elapsed |-> 0]
    /\ batchOut = None

\* the loop test succeeds: batch.map starts the lookup of every code of the batch
StartBatch ==
    /\ batchPc = "loop"
    /\ batchIndex < Len(batchIn.ndcs)
    /\ batchLookups' =
          [batchLookups EXCEPT !.state =
              [j \in DOMAIN @ |->
                  IF j \in batchPositions(batchIn.ndcs, batchIndex)
                  THEN [at |-> "pending", result |-> None] ELSE @[j]]]
    /\ batchPc' = "awaitAll"
    /\ UNCHANGED <<batchIn, batchIndex, batchPackages, batchDelays, batchOut>>

\* one lookup of the batch settles
SettleLookup ==
    /\ batchPc = "awaitAll"
    /\ \E j \in DOMAIN batchLookups.state :
          /\ batchLookups.state[j].at = "pending"
          /\ batchLookups' =
                [state |-> [batchLookups.state EXCEPT
                               ![j] = [at |-> "settled",
                                       result |-> Some(settled(batchIn.ndcs, batchIn.answers, j))]],
                 outOfOrder |-> \/ batchLookups.outOfOrder
                                \/ \E k \in 1..(j - 1) : batchLookups.state[k].at = "pending"]
    /\ UNCHANGED <<batchIn, batchPc, batchIndex, batchPackages, batchDelays, batchOut>>

\* Promise.all settles: it rejects with the first rejection, and otherwise
\* resolves once every lookup of the batch has; the results are pushed
AwaitAll ==
    /\ batchPc = "awaitAll"
    /\ LET batch == batchPositions(batchIn.ndcs, batchIndex)
           done == {j \in batch : batchLookups.state[j].at = "settled"}
           first == CHOOSE j \in batch : \A k \in batch : j <= k
           last == CHOOSE j \in batch : \A k \in batch : k <= j
           from ==
               [j \in batch |-> [at |-> "settled", result |-> Get(batchLookups.state[j].result)]]
       IN  IF \E j \in done : ~Get(batchLookups.state[j].result).ok
           THEN /\ batchPc' = "failed"
                /\ UNCHANGED <<batchIndex, batchPackages, batchDelays>>
           ELSE /\ done = batch
                /\ batchPackages' = batchPackages \o nonNull(from, first, last)
                /\ IF delayNeeded(batchIn.ndcs, batchIndex)
                   THEN /\ batchPc' = "delay"
                        /\ batchDelays' = [batchDelays EXCEPT !.started = @ + 1]
                        /\ UNCHANGED batchIndex
                   ELSE /\ batchPc' = "loop"
                        /\ batchIndex' = batchIndex + BatchSize
                        /\ UNCHANGED batchDelays
    /\ UNCHANGED <<batchIn, batchLookups, batchOut>>

\* the timer of the delay fires
DelayElapsed ==
    /\ batchPc = "delay"
    /\ batchDelays' = [batchDelays EXCEPT !.elapsed = @ + 1]
    /\ batchIndex' = batchIndex + BatchSize
    /\ batchPc' = "loop"
    /\ UNCHANGED <<batchIn, batchLookups, batchPackages, batchOut>>

\* the loop test fails: return packages
ReturnPackages ==
    /\ batchPc = "loop"
    /\ batchIndex >= Len(batchIn.ndcs)
    /\ batchOut' = Some(batchPackages)
    /\ batchPc' = "returned"
    /\ UNCHANGED <<batchIn, batchIndex, batchLookups, batchPackages, batchDelays>>

InitBatch == BatchInit /\ PipeIdle /\ SelIdle /\ QtyIdle /\ UnitIdle /\ PostIdle /\ DrugIdle /\ AssessIdle /\ RelIdle /\ CacheIdle /\ RxIdle
NextBatch ==
    \/ StartBatch /\ UNCHANGED <<pipeVars, selVars, qtyVars, unitVars, postVars, drugVars, assessVars, relVars, cacheVars, rxVars>>
    \/ SettleLookup /\ UNCHANGED <<pipeVars, selVars, qtyVars, unitVars, postVars, drugVars, assessVars, relVars, cacheVars, rxVars>>
    \/ AwaitAll /\ UNCHANGED <<pipeVars, selVars, qtyVars, unitVars, postVars, drugVars, assessVars, relVars, cacheVars, rxVars>>
    \/ DelayElapsed /\ UNCHANGED <<pipeVars, selVars, qtyVars, unitVars, postVars, drugVars, assessVars, relVars, cacheVars, rxVars>>
    \/ ReturnPackages /\ UNCHANGED <<pipeVars, selVars, qtyVars, unitVars, postVars, drugVars, assessVars, relVars, cacheVars, rxVars>>
SpecBatch == InitBatch /\ [][NextBatch]_vars
\* every lookup settles and every timer fires
SpecBatchFair == SpecBatch /\ WF_vars(NextBatch)

(* Properties of getMultipleNDCPackages, checked under SpecBatch *)

batchCount == Len(batchIn.ndcs)
batchAt(j) == batchLookups.state[j].at
\* the batch a position belongs to, counted from 0
batchNumber(j) == (j - 1) \div 5
\* the number of batches of the list
batchesNeeded == (batchCount + 4) \div 5

\* C25: the codes are taken in input order in consecutive batches of at most 5;
\* never more than 5 lookups are outstanding; a lookup of a batch is started
\* only when every lookup of the batches before it has settled and the delay
\* after each of them has elapsed; a delay happens only between two batches.
C25_BatchesBoundConcurrency ==
    LET started == {j \in 1..batchCount : batchAt(j) # "notStarted"}
    IN  /\ Cardinality({j \in 1..batchCount : batchAt(j) = "pending"}) <= 5
        /\ \A j \in started : \A k \in 1..batchCount :
              /\ k < j => k \in started
              /\ batchNumber(k) = batchNumber(j) => k \in started
              /\ batchNumber(k) < batchNumber(j) => batchAt(k) = "settled"
        /\ \A j \in started : batchDelays.elapsed >= batchNumber(j)
        /\ batchDelays.elapsed <= batchDelays.started
        /\ batchDelays.started <= (IF batchCount = 0 THEN 0 ELSE batchesNeeded - 1)
        /\ batchPc = "delay" => \E j \in 1..batchCount : batchAt(j) = "notStarted"
        /\ batchPc = "returned" =>
              /\ \A j \in 1..batchCount : batchAt(j) = "settled"
              /\ batchDelays.elapsed = batchDelays.started
              /\ batchDelays.started = (IF batchCount = 0 THEN 0 ELSE batchesNeeded - 1)

\* the second batch of eleven codes is outstanding after one delay
C25_Witness ==
    /\ batchPc = "awaitAll"
    /\ batchCount = 11
    /\ batchIndex = 5
    /\ {j \in 1..batchCount : batchAt(j) = "pending"} = 6..10
    /\ batchDelays = [started |-> 1, elapsed |-> 1]

\* the records of the lookups that resolve with a record, in input order
RECURSIVE recordsFrom(_)
recordsFrom(j) ==
    IF j > batchCount THEN <<>>
    ELSE (IF isRecord(batchIn.answers[j])
          THEN <<recordOf(batchIn.ndcs[j], packageNdcOf(batchIn.ndcs[j], batchIn.answers[j]))>>
          ELSE <<>>)
         \o recordsFrom(j + 1)

\* C26: getMultipleNDCPackages never fails, whichever lookups reject or resolve
\* with null; it returns once each lookup has settled; and it returns exactly
\* the records of the lookups that found one, in the order of their codes.
C26_BestEffortAndTotal ==
    /\ [](batchPc # "failed")
    /\ <>(batchPc = "returned")
    /\ [](batchPc = "returned" => batchOut = Some(recordsFrom(1)))

\* a list with a rejected and a null lookup whose lookups settled out of input
\* order, returned with its records
C26_Witness ==
    /\ batchPc = "returned"
    /\ batchLookups.outOfOrder
    /\ \E j \in 1..batchCount : batchIn.answers[j] = "rejects"
    /\ \E j \in 1..batchCount : batchIn.answers[j] = "null"
    /\ Len(Get(batchOut)) >= 3

----------------------------------------------------------------------------
(* rxnorm.ts: SimpleCache.  Time is counted in minutes. *)

\* new SimpleCache<RxCUIResult>(60)
TtlMinutes == 60
\* the number of clock ticks of a run
MaxTicks == 5
\* the clock advances by half the time-to-live
Tick == TtlMinutes \div 2

\* new Map()
EmptyMap == <<>>

\* get(key) expiring an entry as soon as the time-to-live has elapsed
cacheGetExpiringAtTtl(store, key, now) ==
    IF key \notin DOMAIN store THEN [store |-> store, value |-> None]
    ELSE IF now - store[key].timestamp >= TtlMinutes
    THEN [store |-> [k \in DOMAIN store \ {key} |-> store[k]], value |-> None]
    ELSE [store |-> store, value |-> Some(store[key].data)]

\* get(key): the map afterwards and the value returned (None for null)
cacheGet(store, key, now) ==
    IF key \notin DOMAIN store THEN [store |-> store, value |-> None]
    ELSE IF now - store[key].timestamp > TtlMinutes
    THEN [store |-> [k \in DOMAIN store \ {key} |-> store[k]], value |-> None]
    ELSE [store |-> store, value |-> Some(store[key].data)]

\* set(key, data)
cacheSet(store, key, data, now) ==
    [k \in DOMAIN store \cup {key} |->
        IF k = key THEN [data |-> data, timestamp |-> now] ELSE store[k]]

\* clear()
cacheClear(store) == EmptyMap

CacheKeys == {"k1", "k2"}
CacheValues == {"v1", "v2"}

CacheInit ==
    /\ cacheStore = EmptyMap
    /\ cacheNow = 0
    /\ cacheOp = [op |-> "new", key |-> "", returned |-> None]
    /\ cacheLastSet = [k \in CacheKeys |-> None]

CacheSet ==
    \E k \in CacheKeys, v \in CacheValues :
        /\ cacheStore' = cacheSet(cacheStore, k, v, cacheNow)
        /\ cacheOp' = [op |-> "set", key |-> k, returned |-> None]
        /\ cacheLastSet' = [cacheLastSet EXCEPT ![k] = Some([value |-> v, at |-> cacheNow])]
        /\ UNCHANGED cacheNow

CacheGet ==
    \E k \in CacheKeys :
        LET g == cacheGet(cacheStore, k, cacheNow)
        IN  /\ cacheStore' = g.store
            /\ cacheOp' = [op |-> "get", key |-> k, returned |-> g.value]
            /\ UNCHANGED <<cacheNow, cacheLastSet>>

CacheClear ==
    /\ cacheStore' = cacheClear(cacheStore)
    /\ cacheOp' = [op |-> "clear", key |-> "", returned |-> None]
    /\ cacheLastSet' = [k \in CacheKeys |-> None]
    /\ UNCHANGED cacheNow

\* time passes
CacheTick ==
    /\ cacheNow < MaxTicks * Tick
    /\ cacheNow' = cacheNow + Tick
    /\ cacheOp' = [op |-> "tick", key |-> "", returned |-> None]
    /\ UNCHANGED <<cacheStore, cacheLastSet>>

InitCache == CacheInit /\ PipeIdle /\ SelIdle /\ QtyIdle /\ UnitIdle /\ PostIdle /\ DrugIdle /\ AssessIdle /\ RelIdle /\ RxIdle /\ BatchIdle
NextCache ==
    \/ CacheSet /\ UNCHANGED <<pipeVars, selVars, qtyVars, unitVars, postVars, drugVars, assessVars, relVars, rxVars, batchVars>>
    \/ CacheGet /\ UNCHANGED <<pipeVars, selVars, qtyVars, unitVars, postVars, drugVars, assessVars, relVars, rxVars, batchVars>>
    \/ CacheClear /\ UNCHANGED <<pipeVars, selVars, qtyVars, unitVars, postVars, drugVars, assessVars, relVars, rxVars, batchVars>>
    \/ CacheTick /\ UNCHANGED <<pipeVars, selVars, qtyVars, unitVars, postVars, drugVars, assessVars, relVars, rxVars, batchVars>>
SpecCache == InitCache /\ [][NextCache]_vars

(* Properties of SimpleCache, checked under SpecCache *)

\* C27: get(k) returns the value of the most recent set(k, v) if no clear
\* happened since and at most 60 minutes have elapsed since that set, and null
\* otherwise; a get that finds an entry older than 60 minutes removes it; an
\* entry is removed only by such a get or by clear.
C27_LazyExpiry ==
    /\ [](cacheOp.op = "get" =>
             LET last == cacheLastSet[cacheOp.key]
             IN  cacheOp.returned =
                    IF IsSome(last) /\ cacheNow - Get(last).at <= 60
                    THEN Some(Get(last).value) ELSE None)
    /\ [][LET removed == DOMAIN cacheStore \ DOMAIN cacheStore'
              k == cacheOp'.key
          IN  /\ (/\ cacheOp'.op = "get"
                  /\ k \in DOMAIN cacheStore
                  /\ cacheNow - cacheStore[k].timestamp > 60) => k \in removed
              /\ removed # {} =>
                    \/ cacheOp'.op = "clear"
                    \/ /\ cacheOp'.op = "get"
                       /\ removed = {k}
                       /\ cacheNow - cacheStore[k].timestamp > 60]_vars

\* a get exactly 60 minutes after the set still returns the value
C27_Witness ==
    /\ cacheOp.op = "get"
    /\ IsSome(cacheLastSet[cacheOp.key])
    /\ cacheNow - Get(cacheLastSet[cacheOp.key]).at = 60
    /\ cacheOp.returned = Some(Get(cacheLastSet[cacheOp.key]).value)

----------------------------------------------------------------------------
(* drugNameToRxCUI / ndcToRxCUI sharing rxcuiCache: lib/api/rxnorm.ts.
   Lookups run concurrently; each suspends at its external requests. *)

\* the callers whose lookups can be in flight together
Callers == {"c1", "c2"}
\* the number of clock ticks of a run
MaxRxTicks == 2

N_Aspirin == <<"A","s","p","i","r","i","n">>
N_aspirin_padded == <<"a","s","p","i","r","i","n"," ">>
N_Unknown == <<"U","n","k","n","o","w","n">>
K_name == <<"n","a","m","e",":">>
K_ndc == <<"n","d","c",":">>
E_FetchFailed == Msg("fetch failed")
E_JsonParse == Msg("Unexpected token < in JSON at position 0")

\* the calls made: names alike up to case and padding, a name made of digits,
\* and the same code written with and without dashes
RxCalls ==
    {[fn |-> "drugNameToRxCUI", arg |-> a] : a \in {N_Aspirin, N_aspirin_padded, D_digits11}}
    \cup {[fn |-> "ndcToRxCUI", arg |-> a] : a \in {D_ndcDashed, D_digits11}}

\* the calls made in a run: the two spellings of a name and a name the service
\* may not know, or the two spellings of a code and the name with its digits
AspirinCalls == {c \in RxCalls : c.fn = "drugNameToRxCUI"}
DigitCalls == {c \in RxCalls : c.arg # N_Aspirin /\ c.arg # N_aspirin_padded}

\* what the RxNorm service knows: one drug, by its name (exact or approximate
\* match) or by its code
RxWorlds ==
    {[term |-> toLowerCase(N_Aspirin), name |-> "exact", ndc |-> FALSE, calls |-> AspirinCalls],
     [term |-> toLowerCase(N_Aspirin), name |-> "approx", ndc |-> FALSE, calls |-> AspirinCalls],
     [term |-> D_digits11, name |-> "exact", ndc |-> FALSE, calls |-> DigitCalls],
     [term |-> D_digits11, name |-> "none", ndc |-> TRUE, calls |-> DigitCalls]}

\* the identifier and the official name the service holds for a term
serviceRxcui(term) == <<"rxcui", term>>
serviceName(term) == <<"RxNorm Name", term>>

\* how the service answers a name
serviceFinds(world, term) == IF term = world.term THEN world.name ELSE "none"

\* `name:${drugName.toLowerCase().trim()}` with the key compared as typed
nameCacheKeyCaseSensitive(drugName) == K_name \o trim(drugName)

\* `name:${drugName.toLowerCase().trim()}`
nameCacheKey(drugName) == K_name \o trim(toLowerCase(drugName))

\* ndc.replace(/[-\s]/g, '')
normalizedNDC(ndc) == SelectSeq(ndc, LAMBDA c : c # "-" /\ c \notin Whitespace)

\* `ndc:${normalizedNDC}`
ndcCacheKey(ndc) == K_ndc \o normalizedNDC(ndc)

cacheKeyOf(call) ==
    IF call.fn = "drugNameToRxCUI" THEN nameCacheKey(call.arg) ELSE ndcCacheKey(call.arg)

\* { rxcui: exactMatch, name: propValue || drugName }
exactResult(exactMatch, propValue, drugName) ==
    [rxcui |-> exactMatch,
     name |-> IF IsSome(propValue) /\ Get(propValue) # <<>> THEN Get(propValue) ELSE drugName,
     synonym |-> None]

\* { rxcui: bestMatch.rxcui, name: bestMatch.name, synonym: drugName }
approxResult(bestMatch, drugName) ==
    [rxcui |-> bestMatch.rxcui, name |-> bestMatch.name, synonym |-> Some(drugName)]

\* { rxcui: rxcui, name: propValue || 'Unknown' }
ndcResult(rxcui, propValue) ==
    [rxcui |-> rxcui,
     name |-> IF IsSome(propValue) /\ Get(propValue) # <<>> THEN Get(propValue) ELSE N_Unknown,
     synonym |-> None]

\* catch (error): the APIError object thrown to the caller
apiError(message, code) == [message |-> message, code |-> code]
errorCode(fn) == IF fn = "drugNameToRxCUI" THEN "RXNORM_API_ERROR" ELSE "RXNORM_NDC_ERROR"

\* a set that keeps the name of the entry it replaces
storeResultKeepingName(store, cacheKey, lookupResult, now) ==
    [store |-> cacheSet(store, cacheKey,
                        IF cacheKey \in DOMAIN store
                        THEN [lookupResult EXCEPT !.name = store[cacheKey].data.name]
                        ELSE lookupResult, now),
     outcome |-> Return(lookupResult)]

\* rxcuiCache.set(cacheKey, result); return result
storeResult(store, cacheKey, lookupResult, now) ==
    [store |-> cacheSet(store, cacheKey, lookupResult, now), outcome |-> Return(lookupResult)]

\* the approximate-match branch remembering that nothing was found
afterApproxCachingNotFound(store, cacheKey, drugName, candidates, now) ==
    IF candidates = <<>>
    THEN [store |-> cacheSet(store, cacheKey, [rxcui |-> <<>>, name |-> <<>>, synonym |-> None], now),
          outcome |-> Throw(apiError(E_NoRxCUIName, "RXNORM_API_ERROR"))]
    ELSE storeResult(store, cacheKey, approxResult(candidates[1], drugName), now)

\* drugNameToRxCUI after approxResponse.json(): no candidates throws, else the
\* best match is stored and returned
afterApprox(store, cacheKey, drugName, candidates, now) ==
    IF candidates = <<>>
    THEN [store |-> store, outcome |-> Throw(apiError(E_NoRxCUIName, "RXNORM_API_ERROR"))]
    ELSE storeResult(store, cacheKey, approxResult(candidates[1], drugName), now)

\* the claims' own notion of lookups that must share an answer
sameLookup(c, d) ==
    /\ c.fn = d.fn
    /\ IF c.fn = "drugNameToRxCUI"
       THEN toLowerCase(trim(c.arg)) = toLowerCase(trim(d.arg))
       ELSE SelectSeq(c.arg, LAMBDA x : x \in Digits) = SelectSeq(d.arg, LAMBDA x : x \in Digits)
classOf(call) == {d \in RxCalls : sameLookup(call, d)}
RxClasses == {classOf(c) : c \in RxCalls}

\* the key, the class and the term sent to the service, for each call
rxKey == [c \in RxCalls |-> cacheKeyOf(c)]
rxClass == [c \in RxCalls |-> classOf(c)]
rxTerm == [c \in RxCalls |->
             IF c.fn = "drugNameToRxCUI" THEN toLowerCase(trim(c.arg)) ELSE normalizedNDC(c.arg)]

\* a value written through the exported cache object: an RxCUIResult no answer
\* of the service produces
R_planted == [rxcui |-> <<"0">>, name |-> N_Unknown, synonym |-> None]

\* history: the value the exported cache object wrote for a class of lookups
\* and no lookup or clear() has replaced since
NoHandle == [op |-> "none", data |-> None, at |-> 0]

\* a lookup not yet made
IdleLookup ==
    [fn |-> "", arg |-> <<>>, pc |-> "idle", requests |-> 0, outcome |-> None,
     seen |-> None, handled |-> [op |-> "none", data |-> None], wrote |-> "nothing"]

inFlight(lookup) ==
    lookup.pc \in {"exact", "exactBody", "details", "detailsBody", "approx", "approxBody",
                   "status", "statusBody", "name", "nameBody"}

\* a caller whose lookup has finished holds no lookup any more
settledLookup(lookup) == IF inFlight(lookup) THEN lookup ELSE IdleLookup

callOf(lookup) == [fn |-> lookup.fn, arg |-> lookup.arg]

\* history: what a step of a lookup did to the map
wroteBy(before, after, cacheKey, now, prior) ==
    IF after = before THEN prior
    ELSE IF /\ prior # "stored"
            /\ cacheKey \in DOMAIN before
            /\ now - before[cacheKey].timestamp > TtlMinutes
            /\ after = [k \in DOMAIN before \ {cacheKey} |-> before[k]]
    THEN "evicted"
    ELSE "stored"

\* history: the successful completions of a class of lookups since the
\* exported cache object last cleared or overwrote its entry, as seen by a
\* lookup starting now
seenAt(done, now) ==
    IF IsSome(done) /\ now - Get(done).lastAt <= TtlMinutes
    THEN Some([first |-> IF now - Get(done).firstAt <= TtlMinutes
                         THEN Some(Get(done).first) ELSE None,
               last |-> Get(done).last,
               overlapped |-> Get(done).overlapped])
    ELSE None

\* history: what the exported cache object did to the entry, as seen by a
\* lookup starting now (a value it wrote is of no use once older than the
\* time-to-live)
handledAt(handle, now) ==
    IF handle.op = "set" /\ now - handle.at > TtlMinutes
    THEN [op |-> "expired", data |-> None]
    ELSE [op |-> handle.op, data |-> handle.data]

\* history: a lookup completing with lookupResult
doneAfter(done, lookupResult, now, overlapped) ==
    IF IsSome(done) /\ now - Get(done).firstAt <= TtlMinutes
    THEN Some([Get(done) EXCEPT !.last = lookupResult, !.lastAt = now])
    ELSE Some([first |-> lookupResult, firstAt |-> now, last |-> lookupResult,
               lastAt |-> now, overlapped |-> overlapped])

RxInit ==
    /\ rxCache = EmptyMap
    /\ rxNow = 0
    /\ \E w \in RxWorlds :
           rxLookups = [world |-> w,
                        slots |-> [i \in Callers |-> IdleLookup],
                        done |-> [c \in RxClasses |-> None],
                        handle |-> [c \in RxClasses |-> NoHandle]]

\* a step of lookup i that leaves it at nextPc with the given outcome and map
rxStep(i, nextPc, requests, outcome, store) ==
    LET lookup == rxLookups.slots[i]
        call == callOf(lookup)
        completed == nextPc = "returned" /\ inFlight(lookup)
        others == \E j \in Callers \ {i} :
                      /\ inFlight(rxLookups.slots[j])
                      /\ rxClass[callOf(rxLookups.slots[j])] = rxClass[call]
    IN  /\ rxCache' = store
        /\ rxLookups' =
              [rxLookups EXCEPT
                 !.slots = [j \in Callers |->
                    IF j = i
                    THEN [lookup EXCEPT
                            !.pc = nextPc, !.requests = requests, !.outcome = outcome,
                            !.wrote = wroteBy(rxCache, store, rxKey[call], rxNow, @)]
                    ELSE settledLookup(@[j])],
                 !.done[rxClass[call]] =
                     IF completed
                     THEN doneAfter(@, outcome[1].value, rxNow, others)
                     ELSE @,
                 !.handle[rxClass[call]] = IF completed THEN NoHandle ELSE @]
        /\ UNCHANGED rxNow

\* a throw inside the try block, caught and thrown on as an APIError
rxFail(i, message) ==
    LET lookup == rxLookups.slots[i]
    IN  rxStep(i, "failed", lookup.requests,
               Some(Throw(apiError(message, errorCode(lookup.fn)))), rxCache)

\* the call: cache lookup, and on a miss the first request
StartLookup ==
    \E i \in Callers, call \in rxLookups.world.calls :
        LET got == cacheGet(rxCache, rxKey[call], rxNow)
            hit == IsSome(got.value)
        IN  /\ ~inFlight(rxLookups.slots[i])
            /\ rxCache' = got.store
            /\ rxLookups' =
                  [rxLookups EXCEPT !.slots = [j \in Callers |->
                      IF j # i THEN settledLookup(@[j]) ELSE
                      [fn |-> call.fn, arg |-> call.arg,
                       pc |-> IF hit THEN "returned"
                              ELSE IF call.fn = "drugNameToRxCUI" THEN "exact" ELSE "status",
                       requests |-> IF hit THEN 0 ELSE 1,
                       outcome |-> IF hit THEN Some(Return(Get(got.value))) ELSE None,
                       seen |-> seenAt(rxLookups.done[rxClass[call]], rxNow),
                       handled |-> handledAt(rxLookups.handle[rxClass[call]], rxNow),
                       wrote |-> wroteBy(rxCache, got.store, rxKey[call], rxNow, "nothing")]]]
            /\ UNCHANGED rxNow

\* await fetch(url) of lookup i at pc = at settles: a rejection (with an Error or
\* with another value) is thrown on, !response.ok is thrown where the code
\* tests it, and otherwise the lookup goes on to await response.json()
fetchSettles(i, at, body, testsOk, response) ==
    /\ rxLookups.slots[i].pc = at
    /\ CASE response = "rejected" -> rxFail(i, E_FetchFailed)
         [] response = "rejectedNotError" -> rxFail(i, E_Unknown)
         [] response = "httpError" /\ testsOk -> rxFail(i, E_RxNormHttp)
         [] OTHER -> rxStep(i, body, rxLookups.slots[i].requests, None, rxCache)

FetchResponses == {"ok", "httpError", "rejected", "rejectedNotError"}

\* await fetch(exactUrl); if (!exactResponse.ok) throw
ExactResponse ==
    \E i \in Callers, response \in FetchResponses :
        fetchSettles(i, "exact", "exactBody", TRUE, response)

\* await exactResponse.json(); the details or the approximate request is sent
ExactBody ==
    \E i \in Callers, parsed \in BOOLEAN :
        LET lookup == rxLookups.slots[i]
        IN  /\ lookup.pc = "exactBody"
            /\ IF ~parsed THEN rxFail(i, E_JsonParse)
               ELSE rxStep(i, IF serviceFinds(rxLookups.world, rxTerm[callOf(lookup)]) = "exact"
                              THEN "details" ELSE "approx",
                           lookup.requests + 1, None, rxCache)

\* await fetch(detailsUrl): response.ok is not looked at
DetailsResponse ==
    \E i \in Callers, response \in FetchResponses :
        fetchSettles(i, "details", "detailsBody", FALSE, response)

\* await detailsResponse.json(): an answer without the property falls back to
\* the typed name; the result is stored and returned
DetailsBody ==
    \E i \in Callers, body \in {"named", "unnamed", "rejected"} :
        LET lookup == rxLookups.slots[i]
            term == rxTerm[callOf(lookup)]
            propValue == IF body = "named" THEN Some(serviceName(term)) ELSE None
            stored == storeResult(rxCache, rxKey[callOf(lookup)],
                                  exactResult(serviceRxcui(term), propValue, lookup.arg), rxNow)
        IN  /\ lookup.pc = "detailsBody"
            /\ IF body = "rejected" THEN rxFail(i, E_JsonParse)
               ELSE rxStep(i, "returned", lookup.requests, Some(stored.outcome), stored.store)

\* await fetch(approxUrl); if (!approxResponse.ok) throw
ApproxResponse ==
    \E i \in Callers, response \in FetchResponses :
        fetchSettles(i, "approx", "approxBody", TRUE, response)

\* await approxResponse.json(): no candidates throws, else the best match is
\* stored and returned
ApproxBody ==
    \E i \in Callers, parsed \in BOOLEAN :
        LET lookup == rxLookups.slots[i]
            term == rxTerm[callOf(lookup)]
            candidates == IF serviceFinds(rxLookups.world, term) = "approx"
                          THEN <<[rxcui |-> serviceRxcui(term), name |-> serviceName(term)]>>
                          ELSE <<>>
            after == afterApprox(rxCache, rxKey[callOf(lookup)], lookup.arg, candidates, rxNow)
        IN  /\ lookup.pc = "approxBody"
            /\ IF ~parsed THEN rxFail(i, E_JsonParse)
               ELSE rxStep(i, IF after.outcome.ok THEN "returned" ELSE "failed",
                           lookup.requests, Some(after.outcome), after.store)

\* await fetch(ndcstatus url); if (!response.ok) throw
StatusResponse ==
    \E i \in Callers, response \in FetchResponses :
        fetchSettles(i, "status", "statusBody", TRUE, response)

\* await response.json(): no rxcui throws, else the name request is sent
StatusBody ==
    \E i \in Callers, parsed \in BOOLEAN :
        LET lookup == rxLookups.slots[i]
        IN  /\ lookup.pc = "statusBody"
            /\ IF ~parsed THEN rxFail(i, E_JsonParse)
               ELSE IF rxLookups.world.ndc /\ rxTerm[callOf(lookup)] = rxLookups.world.term
               THEN rxStep(i, "name", lookup.requests + 1, None, rxCache)
               ELSE rxFail(i, E_NoRxCUINDC)

\* await fetch(nameUrl): response.ok is not looked at
NameResponse ==
    \E i \in Callers, response \in FetchResponses :
        fetchSettles(i, "name", "nameBody", FALSE, response)

\* await nameResponse.json(): an answer without the property gives 'Unknown';
\* the result is stored and returned
NameBody ==
    \E i \in Callers, body \in {"named", "unnamed", "rejected"} :
        LET lookup == rxLookups.slots[i]
            term == rxTerm[callOf(lookup)]
            propValue == IF body = "named" THEN Some(serviceName(term)) ELSE None
            stored == storeResult(rxCache, rxKey[callOf(lookup)],
                                  ndcResult(serviceRxcui(term), propValue), rxNow)
        IN  /\ lookup.pc = "nameBody"
            /\ IF body = "rejected" THEN rxFail(i, E_JsonParse)
               ELSE rxStep(i, "returned", lookup.requests, Some(stored.outcome), stored.store)

\* time passes, a time-to-live at a time
RxTick ==
    /\ rxNow < MaxRxTicks * TtlMinutes
    /\ rxNow' = rxNow + TtlMinutes
    /\ rxLookups' = [rxLookups EXCEPT !.slots = [j \in Callers |-> settledLookup(@[j])]]
    /\ UNCHANGED rxCache

\* the key a holder of the exported cache object writes and reads: that of
\* the drug the service knows
HandleKeys ==
    {rxKey[c] : c \in {d \in rxLookups.world.calls :
                          /\ rxTerm[d] = rxLookups.world.term
                          /\ (d.fn = "ndcToRxCUI") = rxLookups.world.ndc}}

\* a call through the exported cache object; history: the successes of the
\* classes whose entry it cleared or overwrote no longer count
handleCall(store, classes, event) ==
    /\ rxCache' = store
    /\ rxLookups' =
          [rxLookups EXCEPT
             !.slots = [j \in Callers |-> settledLookup(@[j])],
             !.done = [c \in RxClasses |-> IF c \in classes THEN None ELSE @[c]],
             !.handle = [c \in RxClasses |-> IF c \in classes THEN event ELSE @[c]]]
    /\ UNCHANGED rxNow

\* __cache.clear(); on an empty map it changes nothing
HandleClear ==
    /\ DOMAIN rxCache # {}
    /\ handleCall(cacheClear(rxCache), RxClasses, NoHandle)

\* __cache.set(key, data)
HandleSet ==
    \E key \in HandleKeys :
        handleCall(cacheSet(rxCache, key, R_planted, rxNow),
                   {rxClass[c] : c \in {d \in RxCalls : rxKey[d] = key}},
                   [op |-> "set", data |-> Some(R_planted), at |-> rxNow])

\* __cache.get(key): an entry older than the time-to-live is deleted; any
\* other get changes nothing
HandleGet ==
    \E key \in HandleKeys :
        /\ cacheGet(rxCache, key, rxNow).store # rxCache
        /\ handleCall(cacheGet(rxCache, key, rxNow).store, {}, NoHandle)

InitRx == RxInit /\ PipeIdle /\ SelIdle /\ QtyIdle /\ UnitIdle /\ PostIdle /\ DrugIdle /\ AssessIdle /\ RelIdle /\ CacheIdle /\ BatchIdle
NextRx ==
    \/ StartLookup /\ UNCHANGED <<pipeVars, selVars, qtyVars, unitVars, postVars, drugVars, assessVars, relVars, cacheVars, batchVars>>
    \/ ExactResponse /\ UNCHANGED <<pipeVars, selVars, qtyVars, unitVars, postVars, drugVars, assessVars, relVars, cacheVars, batchVars>>
    \/ ExactBody /\ UNCHANGED <<pipeVars, selVars, qtyVars, unitVars, postVars, drugVars, assessVars, relVars, cacheVars, batchVars>>
    \/ DetailsResponse /\ UNCHANGED <<pipeVars, selVars, qtyVars, unitVars, postVars, drugVars, assessVars, relVars, cacheVars, batchVars>>
    \/ DetailsBody /\ UNCHANGED <<pipeVars, selVars, qtyVars, unitVars, postVars, drugVars, assessVars, relVars, cacheVars, batchVars>>
    \/ ApproxResponse /\ UNCHANGED <<pipeVars, selVars, qtyVars, unitVars, postVars, drugVars, assessVars, relVars, cacheVars, batchVars>>
    \/ ApproxBody /\ UNCHANGED <<pipeVars, selVars, qtyVars, unitVars, postVars, drugVars, assessVars, relVars, cacheVars, batchVars>>
    \/ StatusResponse /\ UNCHANGED <<pipeVars, selVars, qtyVars, unitVars, postVars, drugVars, assessVars, relVars, cacheVars, batchVars>>
    \/ StatusBody /\ UNCHANGED <<pipeVars, selVars, qtyVars, unitVars, postVars, drugVars, assessVars, relVars, cacheVars, batchVars>>
    \/ NameResponse /\ UNCHANGED <<pipeVars, selVars, qtyVars, unitVars, postVars, drugVars, assessVars, relVars, cacheVars, batchVars>>
    \/ NameBody /\ UNCHANGED <<pipeVars, selVars, qtyVars, unitVars, postVars, drugVars, assessVars, relVars, cacheVars, batchVars>>
    \/ RxTick /\ UNCHANGED <<pipeVars, selVars, qtyVars, unitVars, postVars, drugVars, assessVars, relVars, cacheVars, batchVars>>
    \/ HandleClear /\ UNCHANGED <<pipeVars, selVars, qtyVars, unitVars, postVars, drugVars, assessVars, relVars, cacheVars, batchVars>>
    \/ HandleSet /\ UNCHANGED <<pipeVars, selVars, qtyVars, unitVars, postVars, drugVars, assessVars, relVars, cacheVars, batchVars>>
    \/ HandleGet /\ UNCHANGED <<pipeVars, selVars, qtyVars, unitVars, postVars, drugVars, assessVars, relVars, cacheVars, batchVars>>
SpecRx == InitRx /\ [][NextRx]_vars

(* Properties of the identity cache, checked under SpecRx *)

\* C22 (as stated): after a successful lookup, every later lookup within the
\* time-to-live whose name is equal up to letter case and surrounding
\* whitespace (whose code is equal after removing dashes and spaces) returns
\* that lookup's result without any external request; and a lookup is answered
\* from the cache only by a lookup of its own kind.
C22_CachedIdentityReused ==
    \A i \in Callers :
        LET lookup == rxLookups.slots[i]
        IN  /\ IsSome(lookup.seen) =>
                  /\ lookup.pc = "returned"
                  /\ lookup.requests = 0
                  /\ lookup.outcome = Some(Return(Get(lookup.seen).last))
                  /\ IsSome(Get(lookup.seen).first) =>
                        lookup.outcome = Some(Return(Get(Get(lookup.seen).first)))
            /\ (lookup.pc = "returned" /\ lookup.requests = 0) =>
                  (IsSome(lookup.seen) \/ lookup.handled.op = "set")

\* C22 (amended): a lookup issues no external request and returns the value
\* most recently stored for it whenever an equivalent lookup succeeded, or a
\* value was written for its key through the exported cache object, within the
\* time-to-live and the exported cache object has not cleared or overwritten
\* the entry since; the value stored by lookups is the first lookup's result
\* unless another equivalent lookup was already in flight when the first one
\* completed; a lookup whose entry the exported cache object cleared asks the
\* service again; and a lookup is answered from the cache only by an entry of
\* its own kind.
C22_ReusedUnlessReplaced ==
    \A i \in Callers :
        LET lookup == rxLookups.slots[i]
            stored == IsSome(lookup.seen) /\ lookup.handled.op = "none"
            planted == lookup.handled.op = "set"
        IN  /\ stored =>
                  /\ lookup.pc = "returned"
                  /\ lookup.requests = 0
                  /\ lookup.outcome = Some(Return(Get(lookup.seen).last))
                  /\ (IsSome(Get(lookup.seen).first) /\ ~Get(lookup.seen).overlapped) =>
                        lookup.outcome = Some(Return(Get(Get(lookup.seen).first)))
            /\ planted =>
                  /\ lookup.pc = "returned"
                  /\ lookup.requests = 0
                  /\ lookup.outcome = Some(Return(Get(lookup.handled.data)))
            /\ (lookup.pc # "idle" /\ ~stored /\ ~planted) => lookup.requests >= 1

\* a padded lower-case name is answered, a full time-to-live later and without
\* a request, by the result stored for the capitalised name
C22_Witness ==
    \E i \in Callers :
        LET lookup == rxLookups.slots[i]
        IN  /\ lookup.pc = "returned"
            /\ lookup.requests = 0
            /\ lookup.arg = N_aspirin_padded
            /\ rxNow >= TtlMinutes
            /\ IsSome(lookup.seen)
            /\ lookup.handled.op = "none"
            /\ ~Get(lookup.seen).overlapped
            /\ Get(lookup.outcome).value.synonym = Some(N_Aspirin)

\* C28 (as stated): at every moment of every interleaving each cache entry is
\* the whole result returned by the latest successfully completed lookup of
\* that key, with both its fields filled, and a lookup that hits returns such
\* a result.
C28_EntriesAreLookupResults ==
    /\ \A k \in DOMAIN rxCache :
          \E c \in RxCalls :
              LET done == rxLookups.done[rxClass[c]]
              IN  /\ rxKey[c] = k
                  /\ IsSome(done)
                  /\ rxCache[k].data = Get(done).last
                  /\ rxCache[k].timestamp = Get(done).lastAt
                  /\ rxCache[k].data.rxcui # <<>>
                  /\ rxCache[k].data.name # <<>>
    /\ \A i \in Callers :
          LET lookup == rxLookups.slots[i]
          IN  (lookup.pc = "returned" /\ lookup.requests = 0) =>
                  /\ IsSome(lookup.seen)
                  /\ Get(lookup.outcome).value = Get(lookup.seen).last
                  /\ Get(lookup.outcome).value.rxcui # <<>>
                  /\ Get(lookup.outcome).value.name # <<>>

\* C28 (amended): at every moment of every interleaving each cache entry is
\* either the value last written for that key through the exported cache
\* object, or the whole result returned by the latest successfully completed
\* lookup of that key, with both its fields filled; and a lookup that hits
\* returns such a value.
C28_EntriesAreWholeResults ==
    /\ \A k \in DOMAIN rxCache :
          \E c \in RxCalls :
              LET done == rxLookups.done[rxClass[c]]
                  handle == rxLookups.handle[rxClass[c]]
              IN  /\ rxKey[c] = k
                  /\ IF handle.op = "set"
                     THEN rxCache[k] = [data |-> Get(handle.data), timestamp |-> handle.at]
                     ELSE /\ handle.op = "none"
                          /\ IsSome(done)
                          /\ rxCache[k].data = Get(done).last
                          /\ rxCache[k].timestamp = Get(done).lastAt
                          /\ rxCache[k].data.rxcui # <<>>
                          /\ rxCache[k].data.name # <<>>
    /\ \A i \in Callers :
          LET lookup == rxLookups.slots[i]
          IN  (lookup.pc = "returned" /\ lookup.requests = 0) =>
                  IF lookup.handled.op = "set"
                  THEN Get(lookup.outcome).value = Get(lookup.handled.data)
                  ELSE /\ lookup.handled.op = "none"
                       /\ IsSome(lookup.seen)
                       /\ Get(lookup.outcome).value = Get(lookup.seen).last
                       /\ Get(lookup.outcome).value.rxcui # <<>>
                       /\ Get(lookup.outcome).value.name # <<>>

\* two lookups of one name were in flight together and the entry of the first
\* to complete has been replaced by the differing result of the second
C28_Witness ==
    \E c \in RxCalls :
        LET done == rxLookups.done[rxClass[c]]
        IN  /\ IsSome(done)
            /\ Get(done).overlapped
            /\ Get(done).first # Get(done).last
            /\ rxLookups.handle[rxClass[c]].op = "none"
            /\ rxKey[c] \in DOMAIN rxCache
            /\ rxCache[rxKey[c]].data = Get(done).last

\* C29 (as stated): a lookup that ends in an error has left the cache exactly
\* as it was.
C29_FailureLeavesCacheUntouched ==
    \A i \in Callers :
        rxLookups.slots[i].pc = "failed" => rxLookups.slots[i].wrote = "nothing"

\* C29 (amended): a lookup that ends in an error, whether not-found or an I/O
\* failure at any of its requests, has stored nothing: at most its opening get
\* removed the already expired entry of its own key; its error comes from a
\* request it made, and every lookup with no equivalent success within the
\* time-to-live calls the external resolver, unless a value was written for
\* its key through the exported cache object in the meantime.
C29_FailuresNeverCached ==
    \A i \in Callers :
        LET lookup == rxLookups.slots[i]
        IN  /\ lookup.pc = "failed" =>
                  /\ lookup.wrote \in {"nothing", "evicted"}
                  /\ lookup.requests >= 1
                  /\ ~Get(lookup.outcome).ok
            /\ (lookup.pc # "idle" /\ ~IsSome(lookup.seen) /\ lookup.handled.op # "set") =>
                  lookup.requests >= 1

\* a code lookup whose opening get removed the expired entry of its key fails
\* at its second request
C29_Witness ==
    \E i \in Callers :
        LET lookup == rxLookups.slots[i]
        IN  /\ lookup.pc = "failed"
            /\ lookup.fn = "ndcToRxCUI"
            /\ lookup.wrote = "evicted"
            /\ lookup.requests = 2
            /\ Get(lookup.outcome).error.message = E_FetchFailed

====
